---- MODULE Spec2Model ----
(***************************************************************************)
(* Segment-based study timer: the persistent store (lib/db.ts), the        *)
(* segment ledger (computeTimesFromSegments), the timer engine             *)
(* (useStudyTimer), the Pomodoro overlay (usePomodoro) and the page        *)
(* handlers that drive both (pages/Index.tsx).                             *)
(*                                                                         *)
(* Time is the integer value of Date.now().  The clock may advance between *)
(* two awaited storage operations of one handler; synchronous code reads   *)
(* one instant.                                                            *)
(***************************************************************************)
EXTENDS Integers, Sequences, FiniteSets, TLC

\* ------------------------------------------------------------------ bounds
MaxClock == 2
MaxSessions == 2
MaxSegments == 2
MaxTopics == 1
MaxSubtopics == 1
MaxAwaitDelay == 1
DayLen == 2
MaxLedgerLen == 2
MaxLedgerTs == 3

\* null of the source; ids and timestamps of the engine are positive
NULL == -1

SessionIds == 1..MaxSessions
SegmentIds == 1..MaxSegments
TopicIds == 1..MaxTopics
SubtopicIds == 1..MaxSubtopics
TopicOrNull == TopicIds \cup {NULL}
SubtopicOrNull == SubtopicIds \cup {NULL}
Delays == 0..MaxAwaitDelay

\* refreshes of the history panel followed on one page load
MaxHistoryTrigger == 2

\* the Pomodoro countdown is followed up to this instant
MaxPomClock == 8

\* the recency window of the Pomodoro snapshot (24 hours), in clock units
SnapshotMaxAge == 3

\* completion callbacks followed when phases are skipped
MaxCallbacks == 3

\* engine calls awaiting a storage operation at the same time
MaxInFlight == 2

\* 0 ms timers that may be waiting at once
MaxPhaseTimeouts == 2

\* JavaScript falsiness of a (number | null): null and 0 are falsy
Falsy(x) == x = NULL \/ x = 0

Max2(a, b) == IF a >= b THEN a ELSE b
Min2(a, b) == IF a <= b THEN a ELSE b

\* ---------------------------------------------------------- segment ledger
\* new Date(y, m, d).getTime(): start of the local day that contains t
StartOfDay(t) == (t \div DayLen) * DayLen

SegEnd_OpenCountsNothing(seg, now) ==
    IF Falsy(seg.endTs) THEN seg.startTs ELSE seg.endTs

SegEnd(seg, now) == IF Falsy(seg.endTs) THEN now ELSE seg.endTs

RECURSIVE AllTimeOf(_, _)
AllTimeOf(segs, now) ==
    IF segs = << >> THEN 0
    ELSE (SegEnd(Head(segs), now) - Head(segs).startTs) + AllTimeOf(Tail(segs), now)

TodayPart_WholeSegment(seg, now, startOfToday) ==
    IF SegEnd(seg, now) > startOfToday
    THEN SegEnd(seg, now) - seg.startTs
    ELSE 0

TodayPart(seg, now, startOfToday) ==
    IF SegEnd(seg, now) > startOfToday
    THEN SegEnd(seg, now) - Max2(seg.startTs, startOfToday)
    ELSE 0

RECURSIVE TodayTimeOf(_, _, _)
TodayTimeOf(segs, now, startOfToday) ==
    IF segs = << >> THEN 0
    ELSE TodayPart(Head(segs), now, startOfToday)
         + TodayTimeOf(Tail(segs), now, startOfToday)

RECURSIVE TopicTimeOf(_, _, _)
TopicTimeOf(segs, now, topicId) ==
    IF segs = << >> THEN 0
    ELSE (IF Head(segs).topicId = topicId /\ topicId # NULL
          THEN SegEnd(Head(segs), now) - Head(segs).startTs ELSE 0)
         + TopicTimeOf(Tail(segs), now, topicId)

RECURSIVE SubtopicTimeOf(_, _, _)
SubtopicTimeOf(segs, now, subtopicId) ==
    IF segs = << >> THEN 0
    ELSE (IF Head(segs).subtopicId = subtopicId /\ subtopicId # NULL
          THEN SegEnd(Head(segs), now) - Head(segs).startTs ELSE 0)
         + SubtopicTimeOf(Tail(segs), now, subtopicId)

computeTimesFromSegments_AllSessions(segs, now, topicId, subtopicId, sessionSegs, today) ==
    [allTime |-> AllTimeOf(segs, now),
     todayTime |-> TodayTimeOf(segs, now, StartOfDay(today)),
     topicTime |-> TopicTimeOf(segs, now, topicId),
     subtopicTime |-> SubtopicTimeOf(segs, now, subtopicId)]

\* today is the real clock's day (getStartOfToday reads new Date()), now is the argument
computeTimesFromSegments(segs, now, topicId, subtopicId, sessionSegs, today) ==
    [allTime |-> AllTimeOf(segs, now),
     todayTime |-> TodayTimeOf(segs, now, StartOfDay(today)),
     topicTime |-> TopicTimeOf(sessionSegs, now, topicId),
     subtopicTime |-> SubtopicTimeOf(sessionSegs, now, subtopicId)]

\* calculateTotalTime of lib/db.ts, Date.now() passed as now
calculateTotalTime(segs, now) == AllTimeOf(segs, now)

\* -------------------------------------------------------- persistent store
\* A store maps the ids in use to records; getAll returns records in key order.
RECURSIVE SortedIds(_)
SortedIds(S) ==
    IF S = {} THEN << >>
    ELSE LET m == CHOOSE x \in S : \A y \in S : x <= y
         IN <<m>> \o SortedIds(S \ {m})

MapSeq(f, ids) == [i \in 1..Len(ids) |-> f[ids[i]]]

getAllSegmentsOf(segStore) == MapSeq(segStore, SortedIds(DOMAIN segStore))

getSegmentsBySessionOf(segStore, sid) ==
    MapSeq(segStore, SortedIds({i \in DOMAIN segStore : segStore[i].sessionId = sid}))

getUnclosedSessionOf_None(sessStore) == NULL

\* sessions.find(s => !s.endTs) over getAll(): first unclosed in key order
getUnclosedSessionOf(sessStore) ==
    LET U == {i \in DOMAIN sessStore : Falsy(sessStore[i].endTs)}
    IN IF U = {} THEN NULL ELSE CHOOSE x \in U : \A y \in U : x <= y

getOpenSegmentOf(segStore, sid) ==
    LET O == {i \in DOMAIN segStore :
                 segStore[i].sessionId = sid /\ Falsy(segStore[i].endTs)}
    IN IF O = {} THEN NULL ELSE CHOOSE x \in O : \A y \in O : x <= y

createSessionOf_AlreadyEnded(sessStore, id, t) ==
    sessStore @@ (id :> [id |-> id, startTs |-> t, endTs |-> t])

createSessionOf(sessStore, id, t) ==
    sessStore @@ (id :> [id |-> id, startTs |-> t, endTs |-> NULL])

endSessionOf(sessStore, id, t) ==
    IF id \in DOMAIN sessStore
    THEN [sessStore EXCEPT ![id].endTs = t]
    ELSE sessStore

openSegmentOf_Untagged(segStore, id, sid, topicId, subtopicId, t) ==
    segStore @@ (id :> [id |-> id, sessionId |-> sid, topicId |-> NULL,
                        subtopicId |-> NULL, startTs |-> t, endTs |-> NULL])

openSegmentOf(segStore, id, sid, topicId, subtopicId, t) ==
    segStore @@ (id :> [id |-> id, sessionId |-> sid, topicId |-> topicId,
                        subtopicId |-> subtopicId, startTs |-> t, endTs |-> NULL])

closeSegmentOf(segStore, id, t) ==
    IF id \in DOMAIN segStore /\ Falsy(segStore[id].endTs)
    THEN [segStore EXCEPT ![id].endTs = t]
    ELSE segStore

\* deleteSession: the session's segments are deleted, then the session record
deleteSessionOf(store, sid) ==
    LET gone == {g \in DOMAIN store.segments : store.segments[g].sessionId = sid}
    IN [sessions |-> [i \in DOMAIN store.sessions \ {sid} |-> store.sessions[i]],
        segments |-> [g \in DOMAIN store.segments \ gone |-> store.segments[g]]]

\* deleteSessions: one deleteSession per selected id
RECURSIVE deleteSessionsOf(_, _)
deleteSessionsOf(store, S) ==
    IF S = {} THEN store
    ELSE LET sid == CHOOSE x \in S : TRUE
         IN deleteSessionsOf(deleteSessionOf(store, sid), S \ {sid})

\* loadHistory: time of a session's segments that have an end
RECURSIVE sessionTotal(_, _, _)
sessionTotal(segStore, sid, G) ==
    IF G = {} THEN 0
    ELSE LET g == CHOOSE x \in G : TRUE
             seg == segStore[g]
         IN (IF seg.sessionId = sid /\ ~Falsy(seg.endTs) THEN seg.endTs - seg.startTs ELSE 0)
            + sessionTotal(segStore, sid, G \ {g})

\* loadHistory: the sessions the panel lists are those with a positive total
sessionList(segStore) ==
    {sid \in {segStore[g].sessionId : g \in DOMAIN segStore} :
        sessionTotal(segStore, sid, DOMAIN segStore) > 0}

\* -------------------------------------------------------------------- state
VARIABLES
    clock,                \* Date.now()
    dbSessions,           \* object store 'sessions'
    dbSegments,           \* object store 'segments'
    state,                \* useStudyTimer: 'idle' | 'running' | 'paused'
    sessionId,
    currentTopicId,
    currentSubtopicId,
    segments,             \* current session's segments as last loaded
    allSegments,          \* all segments as last loaded
    todayTime,
    allTimeTotal,
    topicTime,
    subtopicTime,
    currentSegmentIdRef,
    isRunningRef,
    animationFrameRef,    \* TRUE: a recomputation frame is requested
    pomodoroEnabled,      \* Index: timer mode toggle
    pomState,             \* usePomodoro: PomodoroState
    isPaused,             \* usePomodoro: isPaused
    lastTickRef,          \* usePomodoro: lastTickRef
    pomSaved,             \* localStorage['studywatch-pomodoro-state']
    pomIsRunningRef,      \* usePomodoro: isRunningRef
    pomAnimationFrameRef, \* usePomodoro: TRUE when a countdown frame is requested
    phaseTimeouts,        \* setTimeout(startNextPhase, 0) calls not yet run
    hidden,               \* document.hidden
    callbacks,            \* how often each completion callback has been invoked
    settings,             \* usePomodoro: settings, as saved in localStorage
    last,                 \* the step just taken and the engine state it was taken from
    runAcc,               \* wall-clock time spent running since the session began, or NULL
    pausedSegment,        \* the segment the latest pauseSession closed, NULL if none
    reopened,             \* the latest reopening that found the countdown overdue, if any
    frozen,               \* the Pomodoro state at the latest pause() still in force, if any
    historyRefreshTrigger, \* useStudyTimer: the "history changed" counter
    dateGroups,           \* HistoryPanel: ids of the sessions it lists, as last loaded
    deletedIds,           \* ids of deleted records (a UUID is never issued twice)
    inFlight,             \* engine calls awaiting a storage operation, oldest operation first
    overlapped,           \* TRUE once a call was invoked while another was awaiting
    hiddenSpan,           \* when the tab was last hidden and, if it was, shown again
    ledgerIn,             \* arguments of a direct Ledger call
    ledgerOut             \* its result

storeVars == <<dbSessions, dbSegments>>
engineVars == <<state, sessionId, currentTopicId, currentSubtopicId, segments,
                allSegments, todayTime, allTimeTotal, topicTime, subtopicTime,
                currentSegmentIdRef, isRunningRef, animationFrameRef>>
pomVars == <<pomodoroEnabled, pomState, isPaused, lastTickRef, pomSaved, pomIsRunningRef,
             pomAnimationFrameRef, phaseTimeouts, hidden, callbacks, settings>>
ledgerVars == <<ledgerIn, ledgerOut>>
ghostVars == <<runAcc, pausedSegment, reopened, frozen>>
historyVars == <<historyRefreshTrigger, dateGroups>>
asyncVars == <<inFlight, overlapped>>
vars == <<clock, storeVars, engineVars, pomVars, last, ghostVars, ledgerVars, historyVars,
          deletedIds, asyncVars, hiddenSpan>>

\* Pomodoro settings, in clock units (DEFAULT_POMODORO_SETTINGS scaled down)
WorkDuration == 2
ShortBreakDuration == 1
LongBreakDuration == 2
SessionsBeforeLongBreak == 2

\* the engine fields an action may leave half-updated
EngineFields ==
    [state |-> state, sessionId |-> sessionId,
     currentSegmentId |-> currentSegmentIdRef, isRunning |-> isRunningRef,
     topicId |-> currentTopicId, subtopicId |-> currentSubtopicId]

Step(op, ok) == [op |-> op, ok |-> ok, from |-> state]

\* the settings of a browser that never saved any
DefaultSettings ==
    [workDuration |-> WorkDuration, shortBreakDuration |-> ShortBreakDuration,
     longBreakDuration |-> LongBreakDuration,
     sessionsBeforeLongBreak |-> SessionsBeforeLongBreak]

PomFresh ==
    [isActive |-> FALSE, mode |-> "work", currentSession |-> 1,
     timeRemaining |-> WorkDuration, isBreakLong |-> FALSE]

\* the inactive state under the settings in force
PomIdle == [PomFresh EXCEPT !.timeRemaining = settings.workDuration]

NoSnapshot ==
    [present |-> FALSE, state |-> PomFresh, isPaused |-> FALSE,
     lastTick |-> 0, savedAt |-> 0]

NoReopen ==
    [at |-> NULL, by |-> "none", age |-> 0, calls |-> [work |-> 0, break |-> 0],
     phase |-> PomFresh]

NotFrozen == [at |-> NULL, state |-> PomFresh, reloaded |-> FALSE, expired |-> FALSE]

NeverHidden == [from |-> NULL, to |-> NULL]

NoLedgerCall == [segs |-> << >>, now |-> 0, topicId |-> NULL, subtopicId |-> NULL]
NoLedgerResult == [allTime |-> 0, todayTime |-> 0, topicTime |-> 0, subtopicTime |-> 0]

\* state right after the hooks are constructed, before recovery has found anything
EngineInit ==
    /\ state = "idle"
    /\ sessionId = NULL
    /\ currentTopicId = NULL
    /\ currentSubtopicId = NULL
    /\ segments = << >>
    /\ allSegments = << >>
    /\ todayTime = 0
    /\ allTimeTotal = 0
    /\ topicTime = 0
    /\ subtopicTime = 0
    /\ currentSegmentIdRef = NULL
    /\ isRunningRef = FALSE
    /\ animationFrameRef = FALSE

PomInit ==
    /\ pomodoroEnabled = FALSE
    /\ pomState = PomFresh
    /\ isPaused = FALSE
    /\ lastTickRef = clock
    /\ pomSaved = NoSnapshot
    /\ pomIsRunningRef = FALSE
    /\ pomAnimationFrameRef = FALSE
    /\ phaseTimeouts = 0
    /\ hidden = FALSE
    /\ callbacks = [work |-> 0, break |-> 0]

\* everything but the clock
InitFields ==
    /\ dbSessions = << >>
    /\ dbSegments = << >>
    /\ EngineInit
    /\ PomInit
    /\ last = [op |-> "init", ok |-> TRUE, from |-> "idle"]
    /\ runAcc = 0
    /\ pausedSegment = NULL
    /\ reopened = NoReopen
    /\ frozen = NotFrozen
    /\ ledgerOut = NoLedgerResult
    /\ historyRefreshTrigger = 0
    /\ dateGroups = {}
    /\ deletedIds = [sessions |-> {}, segments |-> {}]
    /\ inFlight = << >>
    /\ overlapped = FALSE
    /\ hiddenSpan = NeverHidden
    /\ settings = DefaultSettings

InitBase ==
    /\ clock = 1
    /\ InitFields

Init == InitBase /\ ledgerIn = NoLedgerCall

\* the page opened at the instant Date.now() is 0
InitEpoch ==
    /\ clock = 0
    /\ InitFields
    /\ ledgerIn = NoLedgerCall

\* ------------------------------------------------------------ timer engine
FreshSessionIds == SessionIds \ (DOMAIN dbSessions \cup deletedIds.sessions)
FreshSegmentIds == SegmentIds \ (DOMAIN dbSegments \cup deletedIds.segments)

\* refreshSegments: reload both lists from the store (results given the store after the writes)
RefreshSegments(sid, segStore) ==
    /\ segments' = IF sid # NULL THEN getSegmentsBySessionOf(segStore, sid) ELSE segments
    /\ allSegments' = getAllSegmentsOf(segStore)
    /\ historyRefreshTrigger < MaxHistoryTrigger
    /\ historyRefreshTrigger' = historyRefreshTrigger + 1

\* History kept for the properties; no handler reads it.  runAcc counts the clock's
\* advance while the engine is in the running state since the current session was started
\* (an action that leaves the running state leaves it at its first storage write); it is
\* NULL for a session the engine took over at a reload.  pausedSegment follows pauseSession.
GhostStep ==
    /\ runAcc' =
          IF last'.op \in {"startSession", "resumeWithContext"} /\ sessionId' # sessionId
          THEN 0
          ELSE IF last'.op \in {"reload", "recoverAgain"} /\ sessionId' # sessionId
               THEN NULL
               ELSE IF runAcc # NULL /\ state = "running"
                       /\ last'.op \notin {"pauseSession", "endCurrentSession"}
                    THEN runAcc + (clock' - clock)
                    ELSE runAcc
    /\ pausedSegment' =
          IF last'.op = "pauseSession"
          THEN (IF last'.ok THEN currentSegmentIdRef ELSE NULL)
          ELSE IF last'.op \in {"advanceClock", "tick", "setTopic", "setSubtopic",
                                "setPomodoroEnabled"}
               THEN pausedSegment
               ELSE NULL
    /\ reopened' = NoReopen
    /\ UNCHANGED <<frozen, asyncVars, hiddenSpan>>

\* HistoryPanel's loadHistory effect
LoadHistory_Panel ==
    dateGroups' = IF historyRefreshTrigger' # historyRefreshTrigger \/ last'.op = "reload"
                  THEN sessionList(dbSegments')
                  ELSE dateGroups

\* the history panel reloads when refreshTrigger changes and when the page mounts
LoadHistory ==
    /\ LoadHistory_Panel
    /\ UNCHANGED deletedIds

\* Time passes between two user actions.
AdvanceClock ==
    /\ clock < MaxClock
    /\ clock' = clock + 1
    /\ last' = Step("advanceClock", TRUE)
    /\ UNCHANGED <<storeVars, engineVars, pomVars, ledgerVars, historyRefreshTrigger>>
    /\ GhostStep
    /\ LoadHistory

\* tick: one frame of the recomputation loop
Tick ==
    /\ animationFrameRef
    /\ isRunningRef
    /\ LET times == computeTimesFromSegments(allSegments, clock, currentTopicId,
                                             currentSubtopicId, segments, clock)
       IN /\ allTimeTotal' = times.allTime
          /\ todayTime' = times.todayTime
          /\ topicTime' = times.topicTime
          /\ subtopicTime' = times.subtopicTime
    /\ last' = Step("tick", TRUE)
    /\ UNCHANGED <<clock, storeVars, state, sessionId, currentTopicId, currentSubtopicId,
                   segments, allSegments, currentSegmentIdRef, isRunningRef,
                   animationFrameRef, pomVars, ledgerVars, historyRefreshTrigger>>
    /\ GhostStep
    /\ LoadHistory

\* The ids of new records (crypto.randomUUID) and the clock's advance between two awaited
\* storage operations are chosen by the environment inside each handler.

\* startSession; f = 0: no storage error, f = 1: createSession rejects,
\* f = 2: createSession resolved and openSegment rejects
StartSession(f) ==
    /\ last' = Step("startSession", f = 0)
    /\ UNCHANGED <<ledgerVars, historyRefreshTrigger>>
    /\ \E sid \in FreshSessionIds :
       \/ /\ f = 1
          /\ UNCHANGED <<clock, storeVars, engineVars>>
       \/ /\ f = 2
          /\ \E d \in Delays :
             /\ clock + d <= MaxClock
             /\ clock' = clock + d
          /\ dbSessions' = createSessionOf(dbSessions, sid, clock)
          /\ sessionId' = sid
          /\ UNCHANGED <<dbSegments, state, currentTopicId, currentSubtopicId, segments,
                         allSegments, todayTime, allTimeTotal, topicTime, subtopicTime,
                         currentSegmentIdRef, isRunningRef, animationFrameRef>>
       \/ /\ f = 0
          /\ \E gid \in FreshSegmentIds, d \in Delays :
             /\ clock + d <= MaxClock
             /\ clock' = clock + d
             /\ dbSegments' = openSegmentOf(dbSegments, gid, sid, NULL, NULL, clock + d)
             /\ currentSegmentIdRef' = gid
             /\ segments' = <<dbSegments'[gid]>>
             /\ allSegments' = Append(allSegments, dbSegments'[gid])
          /\ dbSessions' = createSessionOf(dbSessions, sid, clock)
          /\ sessionId' = sid
          /\ state' = "running"
          /\ isRunningRef' = TRUE
          /\ animationFrameRef' = TRUE
          /\ UNCHANGED <<currentTopicId, currentSubtopicId, todayTime, allTimeTotal,
                         topicTime, subtopicTime>>

\* pauseSession; f = 1: closeSegment rejects
PauseSession(f) ==
    /\ last' = Step("pauseSession", f = 0)
    /\ isRunningRef' = FALSE
    /\ animationFrameRef' = FALSE
    /\ UNCHANGED <<clock, dbSessions, sessionId, currentTopicId, currentSubtopicId,
                   todayTime, allTimeTotal, topicTime, subtopicTime, ledgerVars>>
    /\ \/ /\ f = 1
          /\ currentSegmentIdRef # NULL
          /\ UNCHANGED <<dbSegments, state, segments, allSegments, currentSegmentIdRef,
                         historyRefreshTrigger>>
       \/ /\ f = 0
          /\ IF currentSegmentIdRef # NULL
             THEN /\ dbSegments' = closeSegmentOf(dbSegments, currentSegmentIdRef, clock)
                  /\ currentSegmentIdRef' = NULL
                  /\ RefreshSegments(sessionId, dbSegments')
             ELSE UNCHANGED <<dbSegments, currentSegmentIdRef, segments, allSegments,
                              historyRefreshTrigger>>
          /\ state' = "paused"

\* resumeSession; f = 1: openSegment rejects
ResumeSession(f) ==
    /\ last' = Step("resumeSession", f = 0)
    /\ UNCHANGED <<clock, dbSessions, sessionId, currentTopicId, currentSubtopicId,
                   todayTime, allTimeTotal, topicTime, subtopicTime, ledgerVars>>
    /\ \/ /\ f = 1
          /\ sessionId # NULL
          /\ UNCHANGED <<dbSegments, state, segments, allSegments, currentSegmentIdRef,
                         isRunningRef, animationFrameRef, historyRefreshTrigger>>
       \/ /\ f = 0
          /\ IF sessionId # NULL
             THEN \E gid \in FreshSegmentIds :
                  /\ dbSegments' = openSegmentOf(dbSegments, gid, sessionId, currentTopicId,
                                                 currentSubtopicId, clock)
                  /\ currentSegmentIdRef' = gid
                  /\ RefreshSegments(sessionId, dbSegments')
             ELSE UNCHANGED <<dbSegments, currentSegmentIdRef, segments, allSegments,
                              historyRefreshTrigger>>
          /\ state' = "running"
          /\ isRunningRef' = TRUE
          /\ animationFrameRef' = TRUE

\* closeSegment guarded by "if (currentSegmentIdRef.current)"
CloseCurrent(segStore, t) ==
    IF currentSegmentIdRef # NULL
    THEN closeSegmentOf(segStore, currentSegmentIdRef, t)
    ELSE segStore

\* the clock's advance between closing the current segment and the next storage write
DelaysAfterClose == IF currentSegmentIdRef # NULL THEN Delays ELSE {0}

\* endCurrentSession; f = 1: closeSegment rejects, f = 2: endSession rejects
EndCurrentSession(f) ==
    /\ last' = Step("endCurrentSession", f = 0)
    /\ isRunningRef' = FALSE
    /\ animationFrameRef' = FALSE
    /\ UNCHANGED ledgerVars
    /\ \/ /\ f = 1
          /\ currentSegmentIdRef # NULL
          /\ UNCHANGED <<clock, storeVars, state, sessionId, currentTopicId,
                         currentSubtopicId, segments, allSegments, todayTime, allTimeTotal,
                         topicTime, subtopicTime, currentSegmentIdRef,
                         historyRefreshTrigger>>
       \/ /\ f = 2
          /\ sessionId # NULL
          /\ \E d \in DelaysAfterClose :
             /\ clock + d <= MaxClock
             /\ clock' = clock + d
          /\ dbSegments' = CloseCurrent(dbSegments, clock)
          /\ currentSegmentIdRef' = NULL
          /\ UNCHANGED <<dbSessions, state, sessionId, currentTopicId, currentSubtopicId,
                         segments, allSegments, todayTime, allTimeTotal, topicTime,
                         subtopicTime, historyRefreshTrigger>>
       \/ /\ f = 0
          /\ \E d \in DelaysAfterClose :
             /\ clock + d <= MaxClock
             /\ clock' = clock + d
          /\ dbSegments' = CloseCurrent(dbSegments, clock)
          /\ currentSegmentIdRef' = NULL
          /\ dbSessions' = IF sessionId # NULL
                           THEN endSessionOf(dbSessions, sessionId, clock')
                           ELSE dbSessions
          /\ allSegments' = getAllSegmentsOf(dbSegments')
          /\ LET times == computeTimesFromSegments(allSegments', clock', NULL, NULL,
                                                   << >>, clock')
             IN /\ allTimeTotal' = times.allTime
                /\ todayTime' = times.todayTime
          /\ sessionId' = NULL
          /\ currentTopicId' = NULL
          /\ currentSubtopicId' = NULL
          /\ segments' = << >>
          /\ topicTime' = 0
          /\ subtopicTime' = 0
          /\ state' = "idle"
          /\ historyRefreshTrigger < MaxHistoryTrigger
          /\ historyRefreshTrigger' = historyRefreshTrigger + 1

\* the "close the open segment, open a new one" body shared by setTopic, setSubtopic and
\* the running branch of resumeWithContext; f = 1: closeSegment rejects, f = 2: openSegment
\* rejects after closeSegment resolved
SwitchSegment(topicId, subtopicId, f) ==
    \/ /\ f = 1
       /\ currentSegmentIdRef # NULL
       /\ UNCHANGED <<clock, dbSegments, currentSegmentIdRef, segments, allSegments,
                      historyRefreshTrigger>>
    \/ /\ f = 2
       /\ \E d \in DelaysAfterClose :
          /\ clock + d <= MaxClock
          /\ clock' = clock + d
       /\ dbSegments' = CloseCurrent(dbSegments, clock)
       /\ UNCHANGED <<currentSegmentIdRef, segments, allSegments, historyRefreshTrigger>>
    \/ /\ f = 0
       /\ \E gid \in FreshSegmentIds, d \in DelaysAfterClose :
          /\ clock + d <= MaxClock
          /\ clock' = clock + d
          /\ dbSegments' = openSegmentOf(CloseCurrent(dbSegments, clock), gid, sessionId,
                                         topicId, subtopicId, clock + d)
          /\ currentSegmentIdRef' = gid
          /\ RefreshSegments(sessionId, dbSegments')

\* setTopic
SetTopic(topicId, f) ==
    /\ last' = Step("setTopic", f = 0)
    /\ UNCHANGED <<dbSessions, state, sessionId, todayTime, allTimeTotal, topicTime,
                   subtopicTime, isRunningRef, animationFrameRef, ledgerVars>>
    /\ IF state = "running" /\ sessionId # NULL
       THEN SwitchSegment(topicId, NULL, f)
       ELSE /\ f = 0
            /\ UNCHANGED <<clock, dbSegments, currentSegmentIdRef, segments, allSegments,
                           historyRefreshTrigger>>
    /\ IF f = 0
       THEN /\ currentTopicId' = topicId
            /\ currentSubtopicId' = NULL
       ELSE UNCHANGED <<currentTopicId, currentSubtopicId>>

\* setSubtopic
SetSubtopic(subtopicId, f) ==
    /\ last' = Step("setSubtopic", f = 0)
    /\ UNCHANGED <<dbSessions, state, sessionId, currentTopicId, todayTime, allTimeTotal,
                   topicTime, subtopicTime, isRunningRef, animationFrameRef, ledgerVars>>
    /\ IF state = "running" /\ sessionId # NULL
       THEN SwitchSegment(currentTopicId, subtopicId, f)
       ELSE /\ f = 0
            /\ UNCHANGED <<clock, dbSegments, currentSegmentIdRef, segments, allSegments,
                           historyRefreshTrigger>>
    /\ IF f = 0
       THEN currentSubtopicId' = subtopicId
       ELSE UNCHANGED currentSubtopicId

\* resumeWithContext; failure points per branch as in startSession, resumeSession, setTopic
ResumeWithContext(topicId, subtopicId, f) ==
    /\ last' = Step("resumeWithContext", f = 0)
    /\ UNCHANGED <<todayTime, allTimeTotal, topicTime, subtopicTime, ledgerVars>>
    /\ \/ /\ state = "idle"
          /\ \E sid \in FreshSessionIds :
             \/ /\ f = 1
                /\ UNCHANGED <<clock, storeVars, state, sessionId, currentTopicId,
                               currentSubtopicId, segments, allSegments,
                               currentSegmentIdRef, isRunningRef, animationFrameRef,
                               historyRefreshTrigger>>
             \/ /\ f = 2
                /\ \E d \in Delays :
                   /\ clock + d <= MaxClock
                   /\ clock' = clock + d
                /\ dbSessions' = createSessionOf(dbSessions, sid, clock)
                /\ sessionId' = sid
                /\ UNCHANGED <<dbSegments, state, currentTopicId, currentSubtopicId,
                               segments, allSegments, currentSegmentIdRef, isRunningRef,
                               animationFrameRef, historyRefreshTrigger>>
             \/ /\ f = 0
                /\ \E gid \in FreshSegmentIds, d \in Delays :
                   /\ clock + d <= MaxClock
                   /\ clock' = clock + d
                   /\ dbSegments' = openSegmentOf(dbSegments, gid, sid, topicId,
                                                  subtopicId, clock + d)
                   /\ currentSegmentIdRef' = gid
                   /\ segments' = <<dbSegments'[gid]>>
                   /\ allSegments' = Append(allSegments, dbSegments'[gid])
                /\ dbSessions' = createSessionOf(dbSessions, sid, clock)
                /\ sessionId' = sid
                /\ currentTopicId' = topicId
                /\ currentSubtopicId' = subtopicId
                /\ state' = "running"
                /\ isRunningRef' = TRUE
                /\ animationFrameRef' = TRUE
                /\ historyRefreshTrigger < MaxHistoryTrigger
                /\ historyRefreshTrigger' = historyRefreshTrigger + 1
       \/ /\ state = "paused"
          /\ sessionId # NULL
          /\ UNCHANGED <<clock, dbSessions, sessionId>>
          /\ \/ /\ f = 1
                /\ UNCHANGED <<dbSegments, state, currentTopicId, currentSubtopicId,
                               segments, allSegments, currentSegmentIdRef, isRunningRef,
                               animationFrameRef, historyRefreshTrigger>>
             \/ /\ f = 0
                /\ \E gid \in FreshSegmentIds :
                   /\ dbSegments' = openSegmentOf(dbSegments, gid, sessionId, topicId,
                                                  subtopicId, clock)
                   /\ currentSegmentIdRef' = gid
                   /\ RefreshSegments(sessionId, dbSegments')
                /\ currentTopicId' = topicId
                /\ currentSubtopicId' = subtopicId
                /\ state' = "running"
                /\ isRunningRef' = TRUE
                /\ animationFrameRef' = TRUE
       \/ /\ state = "running"
          /\ sessionId # NULL
          /\ SwitchSegment(topicId, subtopicId, f)
          /\ UNCHANGED <<dbSessions, state, sessionId, isRunningRef, animationFrameRef>>
          /\ IF f = 0
             THEN /\ currentTopicId' = topicId
                  /\ currentSubtopicId' = subtopicId
             ELSE UNCHANGED <<currentTopicId, currentSubtopicId>>
       \/ /\ state # "idle"
          /\ sessionId = NULL
          /\ f = 0
          /\ UNCHANGED <<clock, storeVars, state, sessionId, currentTopicId,
                         currentSubtopicId, segments, allSegments, currentSegmentIdRef,
                         isRunningRef, animationFrameRef, historyRefreshTrigger>>

\* ------------------------------------------------------- Pomodoro overlay
Snapshot(st, paused, lastTick, savedAt) ==
    [present |-> TRUE, state |-> st, isPaused |-> paused, lastTick |-> lastTick,
     savedAt |-> savedAt]

\* start that leaves isPaused as it is
PomStart_KeepsPause ==
    LET newState == [isActive |-> TRUE, mode |-> "work", currentSession |-> 1,
                     timeRemaining |-> WorkDuration, isBreakLong |-> FALSE]
    IN /\ pomState' = newState
       /\ lastTickRef' = clock
       /\ pomSaved' = Snapshot(newState, isPaused, clock, clock)
       /\ pomIsRunningRef' = ~isPaused
       /\ pomAnimationFrameRef' = ~isPaused
       /\ UNCHANGED <<isPaused, phaseTimeouts, hidden, callbacks>>

\* start, with the effect that saves the new state
PomStart ==
    LET newState == [isActive |-> TRUE, mode |-> "work", currentSession |-> 1,
                     timeRemaining |-> settings.workDuration, isBreakLong |-> FALSE]
    IN /\ pomState' = newState
       /\ isPaused' = FALSE
       /\ lastTickRef' = clock
       /\ pomSaved' = Snapshot(newState, FALSE, clock, clock)
       /\ pomIsRunningRef' = TRUE
       /\ pomAnimationFrameRef' = TRUE
       /\ UNCHANGED <<phaseTimeouts, hidden, callbacks>>

\* pause whose snapshot says the countdown is still running
PomPause_Unfrozen ==
    /\ isPaused' = TRUE
    /\ pomSaved' = Snapshot(pomState, FALSE, lastTickRef, clock)
    /\ pomIsRunningRef' = FALSE
    /\ pomAnimationFrameRef' = FALSE
    /\ UNCHANGED <<pomState, lastTickRef, phaseTimeouts, hidden, callbacks>>

\* pause
PomPause ==
    /\ isPaused' = TRUE
    /\ pomSaved' = Snapshot(pomState, TRUE, lastTickRef, clock)
    /\ pomIsRunningRef' = FALSE
    /\ pomAnimationFrameRef' = FALSE
    /\ UNCHANGED <<pomState, lastTickRef, phaseTimeouts, hidden, callbacks>>

\* resume
PomResume ==
    /\ lastTickRef' = clock
    /\ isPaused' = FALSE
    /\ pomSaved' = Snapshot(pomState, FALSE, clock, clock)
    /\ pomIsRunningRef' = pomState.isActive
    /\ pomAnimationFrameRef' = pomState.isActive
    /\ UNCHANGED <<pomState, phaseTimeouts, hidden, callbacks>>

\* stop that leaves the snapshot in localStorage
PomStop_KeepsSnapshot ==
    /\ pomState' = PomFresh
    /\ isPaused' = FALSE
    /\ pomIsRunningRef' = FALSE
    /\ pomAnimationFrameRef' = FALSE
    /\ UNCHANGED <<pomSaved, lastTickRef, phaseTimeouts, hidden, callbacks>>

\* stop
PomStop ==
    /\ pomState' = PomIdle
    /\ isPaused' = FALSE
    /\ pomSaved' = NoSnapshot
    /\ pomIsRunningRef' = FALSE
    /\ pomAnimationFrameRef' = FALSE
    /\ UNCHANGED <<lastTickRef, phaseTimeouts, hidden, callbacks>>

\* startNextPhase with every break a short one
startNextPhase_AlwaysShortBreak(currentState) ==
    IF currentState.mode = "work"
    THEN [callback |-> "work",
          state |-> [isActive |-> TRUE, mode |-> "break",
                     currentSession |-> currentState.currentSession,
                     isBreakLong |-> FALSE, timeRemaining |-> ShortBreakDuration]]
    ELSE [callback |-> "break",
          state |-> [isActive |-> TRUE, mode |-> "work",
                     currentSession |-> IF currentState.isBreakLong
                                        THEN 1 ELSE currentState.currentSession + 1,
                     isBreakLong |-> FALSE, timeRemaining |-> WorkDuration]]

\* startNextPhase with a session counter that is never reset
startNextPhase_CounterNeverReset(currentState) ==
    IF currentState.mode = "work"
    THEN LET isLongBreak == currentState.currentSession >= SessionsBeforeLongBreak
         IN [callback |-> "work",
             state |-> [isActive |-> TRUE, mode |-> "break",
                        currentSession |-> currentState.currentSession,
                        isBreakLong |-> isLongBreak,
                        timeRemaining |-> IF isLongBreak THEN LongBreakDuration
                                          ELSE ShortBreakDuration]]
    ELSE [callback |-> "break",
          state |-> [isActive |-> TRUE, mode |-> "work",
                     currentSession |-> currentState.currentSession + 1,
                     isBreakLong |-> FALSE, timeRemaining |-> WorkDuration]]

\* startNextPhase that carries the remaining countdown into the next phase
startNextPhase_KeepsCountdown(currentState) ==
    IF currentState.mode = "work"
    THEN LET isLongBreak == currentState.currentSession >= SessionsBeforeLongBreak
         IN [callback |-> "work",
             state |-> [isActive |-> TRUE, mode |-> "break",
                        currentSession |-> currentState.currentSession,
                        isBreakLong |-> isLongBreak,
                        timeRemaining |-> currentState.timeRemaining]]
    ELSE [callback |-> "break",
          state |-> [isActive |-> TRUE, mode |-> "work",
                     currentSession |-> IF currentState.isBreakLong
                                        THEN 1 ELSE currentState.currentSession + 1,
                     isBreakLong |-> FALSE,
                     timeRemaining |-> currentState.timeRemaining]]

\* startNextPhase whose long break comes one work phase late
startNextPhase_LongBreakLate(currentState) ==
    IF currentState.mode = "work"
    THEN LET isLongBreak == currentState.currentSession > settings.sessionsBeforeLongBreak
         IN [callback |-> "work",
             state |-> [isActive |-> TRUE, mode |-> "break",
                        currentSession |-> currentState.currentSession,
                        isBreakLong |-> isLongBreak,
                        timeRemaining |-> IF isLongBreak THEN settings.longBreakDuration
                                          ELSE settings.shortBreakDuration]]
    ELSE [callback |-> "break",
          state |-> [isActive |-> TRUE, mode |-> "work",
                     currentSession |-> IF currentState.isBreakLong
                                        THEN 1 ELSE currentState.currentSession + 1,
                     isBreakLong |-> FALSE, timeRemaining |-> settings.workDuration]]

\* startNextPhase: the completion callback it invokes and the state it sets
startNextPhase(currentState) ==
    IF currentState.mode = "work"
    THEN LET isLongBreak == currentState.currentSession >= settings.sessionsBeforeLongBreak
         IN [callback |-> "work",
             state |-> [isActive |-> TRUE, mode |-> "break",
                        currentSession |-> currentState.currentSession,
                        isBreakLong |-> isLongBreak,
                        timeRemaining |-> IF isLongBreak THEN settings.longBreakDuration
                                          ELSE settings.shortBreakDuration]]
    ELSE [callback |-> "break",
          state |-> [isActive |-> TRUE, mode |-> "work",
                     currentSession |-> IF currentState.isBreakLong
                                        THEN 1 ELSE currentState.currentSession + 1,
                     isBreakLong |-> FALSE, timeRemaining |-> settings.workDuration]]

\* loadPomodoroState with no recency window
loadPomodoroState_NoExpiry(saved, now) == saved

\* loadPomodoroState that finds nothing to restore
loadPomodoroState_NothingSaved(saved, now) == NoSnapshot

\* loadPomodoroState: a snapshot older than the recency window is removed and not returned
loadPomodoroState(saved, now) ==
    IF saved.present /\ now - saved.savedAt > SnapshotMaxAge THEN NoSnapshot ELSE saved

\* the effect that follows a render with a new state or isPaused: the frame loop is
\* restarted or cancelled, and an active state is saved
PomEffect(newState, paused, storage) ==
    LET running == newState.isActive /\ ~paused
    IN /\ pomIsRunningRef' = running
       /\ pomAnimationFrameRef' = running
       /\ lastTickRef' = IF running THEN clock ELSE lastTickRef
       /\ pomSaved' = IF newState.isActive
                      THEN Snapshot(newState, paused, lastTickRef', clock)
                      ELSE storage

\* startNextPhase run now, with the render it causes
PhaseTransition ==
    LET next == startNextPhase(pomState)
    IN /\ callbacks' = [callbacks EXCEPT ![next.callback] = @ + 1]
       /\ pomState' = next.state
       /\ PomEffect(next.state, isPaused, pomSaved)
       /\ UNCHANGED isPaused

\* tick: one countdown frame
PomTick ==
    IF ~pomIsRunningRef
    THEN UNCHANGED <<pomState, isPaused, lastTickRef, pomSaved, pomIsRunningRef,
                     pomAnimationFrameRef, phaseTimeouts, callbacks>>
    ELSE LET delta == clock - lastTickRef
             newTimeRemaining == pomState.timeRemaining - delta
         IN IF newTimeRemaining <= 0
            THEN /\ phaseTimeouts' = phaseTimeouts + 1
                 /\ lastTickRef' = clock
                 /\ UNCHANGED <<pomState, isPaused, pomSaved, pomIsRunningRef,
                                pomAnimationFrameRef, callbacks>>
            ELSE /\ pomState' = [pomState EXCEPT !.timeRemaining = newTimeRemaining]
                 /\ PomEffect(pomState', isPaused, pomSaved)
                 /\ UNCHANGED <<isPaused, phaseTimeouts, callbacks>>

\* handleVisibilityChange, the tab becomes hidden
PomHidden ==
    /\ pomSaved' = IF pomState.isActive
                   THEN Snapshot(pomState, isPaused, lastTickRef, clock)
                   ELSE pomSaved
    /\ pomAnimationFrameRef' = FALSE
    /\ UNCHANGED <<pomState, isPaused, lastTickRef, pomIsRunningRef, phaseTimeouts,
                   callbacks>>

\* handleVisibilityChange, the tab becomes visible
PomVisible ==
    IF ~pomIsRunningRef
    THEN UNCHANGED <<pomState, isPaused, lastTickRef, pomSaved, pomIsRunningRef,
                     pomAnimationFrameRef, phaseTimeouts, callbacks>>
    ELSE LET saved == loadPomodoroState(pomSaved, clock)
         IN /\ UNCHANGED phaseTimeouts
            /\ IF saved.present /\ saved.state.isActive /\ ~saved.isPaused
               THEN LET elapsed == clock - saved.lastTick
                        newTimeRemaining == Max2(0, saved.state.timeRemaining - elapsed)
                    IN IF newTimeRemaining <= 0
                       THEN PhaseTransition
                       ELSE /\ pomState' = [pomState EXCEPT
                                               !.timeRemaining = newTimeRemaining]
                            /\ PomEffect(pomState', isPaused, saved)
                            /\ UNCHANGED <<isPaused, callbacks>>
               ELSE /\ pomSaved' = saved
                    /\ lastTickRef' = clock
                    /\ pomAnimationFrameRef' = TRUE
                    /\ UNCHANGED <<pomState, isPaused, pomIsRunningRef, callbacks>>

\* usePomodoro constructed on a freshly loaded page: the state is restored from the snapshot
PomMount ==
    LET saved == loadPomodoroState(pomSaved, clock)
        restored == saved.present /\ saved.state.isActive
        elapsed == clock - saved.lastTick
        newTimeRemaining == Max2(0, saved.state.timeRemaining
                                     - (IF saved.isPaused THEN 0 ELSE elapsed))
        newState == IF restored
                    THEN [saved.state EXCEPT !.timeRemaining = newTimeRemaining]
                    ELSE PomIdle
        paused == IF saved.present THEN saved.isPaused ELSE FALSE
    IN /\ pomState' = newState
       /\ isPaused' = paused
       /\ phaseTimeouts' = 0
       /\ lastTickRef' = clock
       /\ pomIsRunningRef' = (newState.isActive /\ ~paused)
       /\ pomAnimationFrameRef' = (newState.isActive /\ ~paused)
       /\ pomSaved' = IF newState.isActive THEN Snapshot(newState, paused, clock, clock)
                      ELSE saved
       /\ UNCHANGED callbacks

\* --------------------------------------------------------- startup recovery
\* the fields of useStudyTimer right after construction
FreshEngine ==
    [state |-> "idle", sessionId |-> NULL, currentTopicId |-> NULL,
     currentSubtopicId |-> NULL, segments |-> << >>, topicTime |-> 0, subtopicTime |-> 0,
     currentSegmentIdRef |-> NULL, isRunningRef |-> FALSE, animationFrameRef |-> FALSE]

CurrentEngine ==
    [state |-> state, sessionId |-> sessionId, currentTopicId |-> currentTopicId,
     currentSubtopicId |-> currentSubtopicId, segments |-> segments,
     topicTime |-> topicTime, subtopicTime |-> subtopicTime,
     currentSegmentIdRef |-> currentSegmentIdRef, isRunningRef |-> isRunningRef,
     animationFrameRef |-> animationFrameRef]

\* what initAndRecover assigns, run on an engine whose fields are e
RecoverEngine(e) ==
    LET historical == getAllSegmentsOf(dbSegments)
        times == computeTimesFromSegments(historical, clock, NULL, NULL, << >>, clock)
        unclosed == getUnclosedSessionOf(dbSessions)
        sessionSegments == getSegmentsBySessionOf(dbSegments, unclosed)
        openSeg == getOpenSegmentOf(dbSegments, unclosed)
        lastSegment == sessionSegments[Len(sessionSegments)]
        restoreFrom == IF unclosed = NULL THEN "none"
                       ELSE IF openSeg # NULL THEN "open"
                       ELSE IF sessionSegments # << >> THEN "last" ELSE "none"
    IN /\ allSegments' = historical
       /\ allTimeTotal' = times.allTime
       /\ todayTime' = times.todayTime
       /\ topicTime' = e.topicTime
       /\ subtopicTime' = e.subtopicTime
       /\ sessionId' = IF unclosed # NULL THEN unclosed ELSE e.sessionId
       /\ segments' = IF unclosed # NULL THEN sessionSegments ELSE e.segments
       /\ currentTopicId' = CASE restoreFrom = "open" -> dbSegments[openSeg].topicId
                              [] restoreFrom = "last" -> lastSegment.topicId
                              [] OTHER -> e.currentTopicId
       /\ currentSubtopicId' = CASE restoreFrom = "open" -> dbSegments[openSeg].subtopicId
                                 [] restoreFrom = "last" -> lastSegment.subtopicId
                                 [] OTHER -> e.currentSubtopicId
       /\ IF unclosed # NULL /\ openSeg # NULL
          THEN /\ currentSegmentIdRef' = openSeg
               /\ state' = "running"
               /\ isRunningRef' = TRUE
               /\ animationFrameRef' = TRUE
          ELSE /\ currentSegmentIdRef' = e.currentSegmentIdRef
               /\ state' = IF unclosed # NULL THEN "paused" ELSE e.state
               /\ isRunningRef' = e.isRunningRef
               /\ animationFrameRef' = e.animationFrameRef

InitAndRecover_ClosingOpenSegment(e) ==
    LET unclosed == getUnclosedSessionOf(dbSessions)
        openSeg == getOpenSegmentOf(dbSegments, unclosed)
    IN /\ RecoverEngine(e)
       /\ dbSessions' = dbSessions
       /\ dbSegments' = IF unclosed # NULL /\ openSeg # NULL
                        THEN closeSegmentOf(dbSegments, openSeg, clock)
                        ELSE dbSegments

\* initAndRecover only reads the store
InitAndRecover(e) ==
    /\ RecoverEngine(e)
    /\ UNCHANGED storeVars

\* page load: useStudyTimer is constructed anew and its mount effect runs initAndRecover
Reload ==
    /\ last' = Step("reload", TRUE)
    /\ InitAndRecover(FreshEngine)
    /\ historyRefreshTrigger' = 0
    /\ UNCHANGED <<clock, pomVars, ledgerVars>>
    /\ GhostStep
    /\ LoadHistory

\* the mount effect runs a second time on the same hook instance, nothing in between
RecoverAgain ==
    /\ last.op \in {"reload", "recoverAgain"}
    /\ last' = Step("recoverAgain", TRUE)
    /\ InitAndRecover(CurrentEngine)
    /\ UNCHANGED <<clock, pomVars, ledgerVars, historyRefreshTrigger>>
    /\ GhostStep
    /\ LoadHistory

\* ------------------------------------------------------- page (Index.tsx)
getPomodoroTimerState ==
    IF ~pomState.isActive THEN "idle"
    ELSE IF isPaused THEN "paused" ELSE "running"

timerState == IF pomodoroEnabled THEN getPomodoroTimerState ELSE state

PomUntouched ==
    UNCHANGED <<pomState, isPaused, lastTickRef, pomSaved, pomIsRunningRef,
                pomAnimationFrameRef, phaseTimeouts, hidden, callbacks>>

SetPomodoroEnabled(b) ==
    /\ pomodoroEnabled # b
    /\ pomodoroEnabled' = b
    /\ last' = Step("setPomodoroEnabled", TRUE)
    /\ UNCHANGED <<clock, storeVars, engineVars, ledgerVars, historyRefreshTrigger, settings>>
    /\ PomUntouched
    /\ GhostStep
    /\ LoadHistory

\* the Start button and the Space key are offered while timerState is idle
HandleStart ==
    /\ timerState = "idle"
    /\ IF pomodoroEnabled THEN PomStart ELSE PomUntouched
    /\ UNCHANGED <<pomodoroEnabled, settings>>
    /\ StartSession(0)
    /\ GhostStep
    /\ LoadHistory

HandlePause ==
    /\ timerState = "running"
    /\ IF pomodoroEnabled THEN PomPause ELSE PomUntouched
    /\ UNCHANGED <<pomodoroEnabled, settings>>
    /\ PauseSession(0)
    /\ GhostStep
    /\ LoadHistory

HandleResume ==
    /\ timerState = "paused"
    /\ IF pomodoroEnabled THEN PomResume ELSE PomUntouched
    /\ UNCHANGED <<pomodoroEnabled, settings>>
    /\ ResumeSession(0)
    /\ GhostStep
    /\ LoadHistory

HandleEnd ==
    /\ timerState # "idle"
    /\ IF pomodoroEnabled THEN PomStop ELSE PomUntouched
    /\ UNCHANGED <<pomodoroEnabled, settings>>
    /\ EndCurrentSession(0)
    /\ GhostStep
    /\ LoadHistory

\* TopicSelector / SubtopicSelector are disabled while the engine is idle
SelectTopic ==
    /\ state # "idle"
    /\ UNCHANGED pomVars
    /\ \E t \in TopicOrNull : SetTopic(t, 0)
    /\ GhostStep
    /\ LoadHistory

SelectSubtopic ==
    /\ state # "idle"
    /\ UNCHANGED pomVars
    /\ \E u \in SubtopicOrNull : SetSubtopic(u, 0)
    /\ GhostStep
    /\ LoadHistory

\* ------------------------------------------- history panel (HistoryPanel.tsx)
\* handleDeleteSelected: the selected sessions are among the listed ones; the store deletes
\* them, then onDataChange (refreshData) makes the panel reload
DeleteSelected ==
    /\ \E selectedSessions \in SUBSET dateGroups :
          /\ selectedSessions # {}
          /\ LET store == deleteSessionsOf([sessions |-> dbSessions, segments |-> dbSegments],
                                           selectedSessions)
             IN /\ dbSessions' = store.sessions
                /\ dbSegments' = store.segments
                /\ deletedIds' =
                      [sessions |-> deletedIds.sessions \cup (DOMAIN dbSessions \ DOMAIN store.sessions),
                       segments |-> deletedIds.segments \cup (DOMAIN dbSegments \ DOMAIN store.segments)]
    /\ historyRefreshTrigger < MaxHistoryTrigger
    /\ historyRefreshTrigger' = historyRefreshTrigger + 1
    /\ dateGroups' = sessionList(dbSegments')
    /\ last' = Step("deleteSelected", TRUE)
    /\ UNCHANGED <<clock, engineVars, pomVars, ledgerVars>>
    /\ GhostStep

\* -------------------------------------- Pomodoro countdown (usePomodoro.ts)
\* a countdown whose steps pause a running engine
CountdownOnly_PausingEngine ==
    /\ state' = IF state = "running" THEN "paused" ELSE state
    /\ UNCHANGED <<storeVars, sessionId, currentTopicId, currentSubtopicId, segments,
                   allSegments, todayTime, allTimeTotal, topicTime, subtopicTime,
                   currentSegmentIdRef, isRunningRef, animationFrameRef, ledgerVars,
                   historyVars, deletedIds, asyncVars, hiddenSpan, runAcc, pausedSegment,
                   pomodoroEnabled, settings>>

\* what a step of the countdown leaves alone
CountdownOnly ==
    UNCHANGED <<storeVars, engineVars, ledgerVars, historyVars, deletedIds, asyncVars,
                hiddenSpan, runAcc,
                pausedSegment, pomodoroEnabled, settings>>

\* a frame is requested, the tab is visible and the countdown has something to subtract
FrameDue ==
    /\ ~hidden
    /\ pomAnimationFrameRef
    /\ pomIsRunningRef
    /\ lastTickRef < clock \/ pomState.timeRemaining <= 0

\* the snapshot says a running, unpaused countdown ended before now
Overdue(saved, now) ==
    /\ saved.present
    /\ saved.state.isActive
    /\ ~saved.isPaused
    /\ now - saved.lastTick > saved.state.timeRemaining

Reopening(by) ==
    IF Overdue(pomSaved, clock) /\ (by = "visible" => pomIsRunningRef)
    THEN [at |-> clock, by |-> by, age |-> clock - pomSaved.savedAt,
          calls |-> callbacks, phase |-> pomSaved.state]
    ELSE NoReopen

\* the buttons of the page in Pomodoro mode, pressed while no 0 ms timer is waiting
PomodoroStart ==
    /\ pomodoroEnabled /\ ~hidden /\ phaseTimeouts = 0
    /\ getPomodoroTimerState = "idle"
    /\ PomStart
    /\ last' = Step("pomStart", TRUE)
    /\ reopened' = NoReopen
    /\ frozen' = NotFrozen
    /\ UNCHANGED clock
    /\ CountdownOnly

PomodoroPause ==
    /\ pomodoroEnabled /\ ~hidden /\ phaseTimeouts = 0
    /\ getPomodoroTimerState = "running"
    /\ PomPause
    /\ last' = Step("pomPause", TRUE)
    /\ reopened' = NoReopen
    /\ frozen' = [at |-> clock, state |-> pomState, reloaded |-> FALSE, expired |-> FALSE]
    /\ UNCHANGED clock
    /\ CountdownOnly

PomodoroResume ==
    /\ pomodoroEnabled /\ ~hidden /\ phaseTimeouts = 0
    /\ getPomodoroTimerState = "paused"
    /\ PomResume
    /\ last' = Step("pomResume", TRUE)
    /\ reopened' = NoReopen
    /\ frozen' = [frozen EXCEPT !.at = NULL]
    /\ UNCHANGED clock
    /\ CountdownOnly

PomodoroStop ==
    /\ pomodoroEnabled /\ ~hidden /\ phaseTimeouts = 0
    /\ getPomodoroTimerState # "idle"
    /\ PomStop
    /\ last' = Step("pomStop", TRUE)
    /\ reopened' = NoReopen
    /\ frozen' = NotFrozen
    /\ UNCHANGED clock
    /\ CountdownOnly

\* skip is offered during a break
PomodoroSkip ==
    /\ pomodoroEnabled /\ ~hidden /\ phaseTimeouts = 0
    /\ pomState.mode = "break"
    /\ callbacks.work + callbacks.break < MaxCallbacks
    /\ PhaseTransition
    /\ last' = Step("pomSkip", TRUE)
    /\ reopened' = NoReopen
    /\ frozen' = NotFrozen
    /\ UNCHANGED <<clock, phaseTimeouts, hidden>>
    /\ CountdownOnly

\* requestAnimationFrame runs tick while the tab is visible
PomodoroTick ==
    /\ ~hidden
    /\ pomAnimationFrameRef
    /\ phaseTimeouts = 0
    /\ PomTick
    /\ last' = Step("pomTick", TRUE)
    /\ UNCHANGED <<clock, hidden, reopened, frozen>>
    /\ CountdownOnly

\* the 0 ms timer set by tick runs startNextPhase
PomodoroTimeout ==
    /\ phaseTimeouts > 0
    /\ phaseTimeouts' = phaseTimeouts - 1
    /\ PhaseTransition
    /\ last' = Step("pomTimeout", TRUE)
    /\ UNCHANGED <<clock, hidden, reopened, frozen>>
    /\ CountdownOnly

TabHidden ==
    /\ ~hidden
    /\ phaseTimeouts = 0
    /\ hidden' = TRUE
    /\ PomHidden
    /\ last' = Step("pomHidden", TRUE)
    /\ reopened' = NoReopen
    /\ UNCHANGED frozen
    /\ UNCHANGED clock
    /\ CountdownOnly

TabVisible ==
    /\ hidden
    /\ hidden' = FALSE
    /\ PomVisible
    /\ last' = Step("pomVisible", TRUE)
    /\ reopened' = Reopening("visible")
    /\ UNCHANGED frozen
    /\ UNCHANGED clock
    /\ CountdownOnly

\* the page is closed, or dies, and is opened again
PomodoroReload ==
    /\ hidden' = FALSE
    /\ PomMount
    /\ last' = Step("pomReload", TRUE)
    /\ reopened' = Reopening("reload")
    /\ frozen' = IF frozen.at = NULL
                   THEN frozen
                   ELSE [frozen EXCEPT
                           !.reloaded = TRUE,
                           !.expired = @ \/ (/\ pomSaved.present
                                             /\ clock - pomSaved.savedAt > SnapshotMaxAge)]
    /\ pomodoroEnabled' = FALSE
    /\ UNCHANGED <<clock, storeVars, engineVars, ledgerVars, historyVars, deletedIds, asyncVars,
                hiddenSpan, runAcc,
                   pausedSegment, settings>>

\* a unit of time passes once the frame and the timer that are due have run
PomodoroElapse ==
    /\ clock < MaxPomClock
    /\ phaseTimeouts = 0
    /\ ~FrameDue
    /\ clock' = clock + 1
    /\ last' = Step("pomElapse", TRUE)
    /\ reopened' = NoReopen
    /\ UNCHANGED frozen
    /\ UNCHANGED <<storeVars, engineVars, ledgerVars, historyVars, deletedIds, asyncVars,
                hiddenSpan, runAcc,
                   pausedSegment, pomVars>>

\* the browser does not order a 0 ms timer against the next animation frame: a frame later,
\* tick may run again while the timer set by an earlier tick is still waiting
ElapseBeforeTimeout ==
    /\ clock < MaxPomClock
    /\ phaseTimeouts > 0
    /\ ~hidden
    /\ clock' = clock + 1
    /\ last' = Step("pomElapse", TRUE)
    /\ reopened' = NoReopen
    /\ UNCHANGED frozen
    /\ UNCHANGED <<storeVars, engineVars, ledgerVars, historyVars, deletedIds, asyncVars,
                   hiddenSpan, runAcc, pausedSegment, pomVars>>

TickBeforeTimeout ==
    /\ ~hidden
    /\ pomAnimationFrameRef
    /\ phaseTimeouts > 0
    /\ phaseTimeouts < MaxPhaseTimeouts
    /\ lastTickRef < clock
    /\ PomTick
    /\ last' = Step("pomTick", TRUE)
    /\ UNCHANGED <<clock, hidden, reopened, frozen>>
    /\ CountdownOnly

\* the Stop button pressed after the tick that found the countdown expired and before the
\* 0 ms timer it set has run
StopBeforeTimeout ==
    /\ pomodoroEnabled /\ ~hidden /\ phaseTimeouts > 0
    /\ getPomodoroTimerState # "idle"
    /\ PomStop
    /\ last' = Step("pomStop", TRUE)
    /\ reopened' = NoReopen
    /\ frozen' = NotFrozen
    /\ UNCHANGED clock
    /\ CountdownOnly

\* the settings the dialog can hand over: the defaults, or a shorter work phase
SettingsChoices ==
    [workDuration : 1..WorkDuration, shortBreakDuration : {ShortBreakDuration},
     longBreakDuration : {LongBreakDuration},
     sessionsBeforeLongBreak : {SessionsBeforeLongBreak}]

\* updateSettings: the new settings are kept and saved; an inactive countdown shows the new
\* work duration, an active one is left as it is
UpdateSettings ==
    /\ pomodoroEnabled /\ ~hidden /\ phaseTimeouts = 0
    /\ \E newSettings \in SettingsChoices :
          /\ newSettings # settings
          /\ settings' = newSettings
          /\ IF ~pomState.isActive
             THEN /\ pomState' = [pomState EXCEPT !.timeRemaining = newSettings.workDuration]
                  /\ PomEffect(pomState', isPaused, pomSaved)
             ELSE UNCHANGED <<pomState, lastTickRef, pomSaved, pomIsRunningRef,
                              pomAnimationFrameRef>>
    /\ last' = Step("updateSettings", TRUE)
    /\ reopened' = NoReopen
    /\ UNCHANGED <<clock, isPaused, phaseTimeouts, hidden, callbacks, frozen>>
    /\ UNCHANGED <<storeVars, engineVars, ledgerVars, historyVars, deletedIds, asyncVars,
                   hiddenSpan, runAcc, pausedSegment, pomodoroEnabled>>

\* ------------------------------- usePomodoro's interface, called in any state
StartCalled ==
    /\ ~hidden /\ phaseTimeouts = 0
    /\ PomStart
    /\ last' = Step("pomStart", TRUE)
    /\ reopened' = NoReopen
    /\ frozen' = NotFrozen
    /\ UNCHANGED clock
    /\ CountdownOnly

PauseCalled ==
    /\ ~hidden /\ phaseTimeouts = 0
    /\ PomPause
    /\ last' = Step("pomPause", TRUE)
    /\ reopened' = NoReopen
    /\ frozen' = [at |-> clock, state |-> pomState, reloaded |-> FALSE, expired |-> FALSE]
    /\ UNCHANGED clock
    /\ CountdownOnly

ResumeCalled ==
    /\ ~hidden /\ phaseTimeouts = 0
    /\ PomResume
    /\ last' = Step("pomResume", TRUE)
    /\ reopened' = NoReopen
    /\ frozen' = [frozen EXCEPT !.at = NULL]
    /\ UNCHANGED clock
    /\ CountdownOnly

StopCalled ==
    /\ ~hidden /\ phaseTimeouts = 0
    /\ PomStop
    /\ last' = Step("pomStop", TRUE)
    /\ reopened' = NoReopen
    /\ frozen' = NotFrozen
    /\ UNCHANGED clock
    /\ CountdownOnly

SkipCalled ==
    /\ ~hidden /\ phaseTimeouts = 0
    /\ callbacks.work + callbacks.break < MaxCallbacks
    /\ PhaseTransition
    /\ last' = Step("pomSkip", TRUE)
    /\ reopened' = NoReopen
    /\ frozen' = NotFrozen
    /\ UNCHANGED <<clock, phaseTimeouts, hidden>>
    /\ CountdownOnly

\* ------------------------------------------------- visibilitychange events
\* useStudyTimer's handleVisibilityChange: a hidden tab cancels the pending frame, a tab
\* shown again requests one if the loop is running and none is pending
handleVisibilityChange_KeepsFrame(nowHidden) ==
    /\ animationFrameRef' = animationFrameRef
    /\ UNCHANGED <<state, sessionId, currentTopicId, currentSubtopicId, segments,
                   allSegments, todayTime, allTimeTotal, topicTime, subtopicTime,
                   currentSegmentIdRef, isRunningRef>>

handleVisibilityChange(nowHidden) ==
    /\ animationFrameRef' = IF nowHidden THEN FALSE
                            ELSE (animationFrameRef \/ isRunningRef)
    /\ UNCHANGED <<state, sessionId, currentTopicId, currentSubtopicId, segments,
                   allSegments, todayTime, allTimeTotal, topicTime, subtopicTime,
                   currentSegmentIdRef, isRunningRef>>

\* the event reaches both listeners, the engine's and the countdown's
PageHidden ==
    /\ ~hidden
    /\ hidden' = TRUE
    /\ handleVisibilityChange(TRUE)
    /\ PomHidden
    /\ last' = Step("hidden", TRUE)
    /\ hiddenSpan' = [from |-> clock, to |-> NULL]
    /\ UNCHANGED <<clock, storeVars, pomodoroEnabled, ledgerVars, ghostVars, historyVars,
                   deletedIds, asyncVars, settings>>

PageVisible ==
    /\ hidden
    /\ hidden' = FALSE
    /\ handleVisibilityChange(FALSE)
    /\ PomVisible
    /\ last' = Step("visible", TRUE)
    /\ hiddenSpan' = [hiddenSpan EXCEPT !.to = clock]
    /\ UNCHANGED <<clock, storeVars, pomodoroEnabled, ledgerVars, ghostVars, historyVars,
                   deletedIds, asyncVars, settings>>

\* ------------------------------------------- engine actions, await by await
\* Every engine action is an async function: it runs up to its next await, and goes on when
\* the awaited storage operation has completed. Storage operations complete in the order
\* in which they were requested. Nothing in useStudyTimer queues or refuses a call made
\* while another is awaiting (isInitialized is set and never read).

\* the store and the engine's fields, as one value
World ==
    [dbSessions |-> dbSessions, dbSegments |-> dbSegments, state |-> state,
     sessionId |-> sessionId, currentTopicId |-> currentTopicId,
     currentSubtopicId |-> currentSubtopicId, segments |-> segments,
     allSegments |-> allSegments, todayTime |-> todayTime, allTimeTotal |-> allTimeTotal,
     topicTime |-> topicTime, subtopicTime |-> subtopicTime,
     currentSegmentIdRef |-> currentSegmentIdRef, isRunningRef |-> isRunningRef,
     animationFrameRef |-> animationFrameRef,
     historyRefreshTrigger |-> historyRefreshTrigger]

SetWorld(w) ==
    /\ dbSessions' = w.dbSessions
    /\ dbSegments' = w.dbSegments
    /\ state' = w.state
    /\ sessionId' = w.sessionId
    /\ currentTopicId' = w.currentTopicId
    /\ currentSubtopicId' = w.currentSubtopicId
    /\ segments' = w.segments
    /\ allSegments' = w.allSegments
    /\ todayTime' = w.todayTime
    /\ allTimeTotal' = w.allTimeTotal
    /\ topicTime' = w.topicTime
    /\ subtopicTime' = w.subtopicTime
    /\ currentSegmentIdRef' = w.currentSegmentIdRef
    /\ isRunningRef' = w.isRunningRef
    /\ animationFrameRef' = w.animationFrameRef
    /\ historyRefreshTrigger' = w.historyRefreshTrigger

\* a call of `call` awaiting the storage operation `pc` ("done": it has returned), with
\* what its closure captured (sessionId, the tags of the segment it opens) and its locals
\* (seg: the segment id passed to closeSegment, or the last of sessionSegments)
CallOf(call, pc, sid, topicId, subtopicId, seg) ==
    [call |-> call, pc |-> pc, sessionId |-> sid, topicId |-> topicId,
     subtopicId |-> subtopicId, seg |-> seg]

\* the first await of refreshSegments
RefreshFirst(c) == IF c.sessionId # NULL THEN "getSegmentsBySession" ELSE "getAllSegments"

\* a call of action a (setTopic with argument t) runs up to its first await
AsyncInvoke(w, a, t) ==
    LET stopped == [w EXCEPT !.isRunningRef = FALSE, !.animationFrameRef = FALSE]
        ref == w.currentSegmentIdRef
    IN CASE a = "startSession" ->
              [w |-> w, next |-> CallOf(a, "createSession", NULL, NULL, NULL, NULL)]
         [] a = "pauseSession" ->
              IF ref # NULL
              THEN [w |-> stopped,
                    next |-> CallOf(a, "closeSegment", w.sessionId, NULL, NULL, ref)]
              ELSE [w |-> [stopped EXCEPT !.state = "paused"],
                    next |-> CallOf(a, "done", w.sessionId, NULL, NULL, NULL)]
         [] a = "resumeSession" ->
              IF w.sessionId # NULL
              THEN [w |-> w,
                    next |-> CallOf(a, "openSegment", w.sessionId, w.currentTopicId,
                                    w.currentSubtopicId, NULL)]
              ELSE [w |-> [w EXCEPT !.state = "running", !.isRunningRef = TRUE,
                                    !.animationFrameRef = TRUE],
                    next |-> CallOf(a, "done", NULL, NULL, NULL, NULL)]
         [] a = "endCurrentSession" ->
              [w |-> stopped,
               next |-> CallOf(a, IF ref # NULL THEN "closeSegment"
                                  ELSE IF w.sessionId # NULL THEN "endSession"
                                  ELSE "getAllSegments",
                               w.sessionId, NULL, NULL, ref)]
         [] a = "setTopic" ->
              IF w.state = "running" /\ w.sessionId # NULL
              THEN [w |-> w,
                    next |-> CallOf(a, IF ref # NULL THEN "closeSegment" ELSE "openSegment",
                                    w.sessionId, t, NULL, ref)]
              ELSE [w |-> [w EXCEPT !.currentTopicId = t, !.currentSubtopicId = NULL],
                    next |-> CallOf(a, "done", w.sessionId, t, NULL, NULL)]

\* the storage operation call c awaits completes (a new record gets the id `id`), and c
\* runs up to its next await
AsyncResume(w, c, id) ==
    LET to(pc) == [c EXCEPT !.pc = pc]
        allSegs == getAllSegmentsOf(w.dbSegments)
        times == computeTimesFromSegments(allSegs, clock, NULL, NULL, << >>, clock)
    IN CASE c.pc = "createSession" ->
              [w |-> [w EXCEPT !.dbSessions = createSessionOf(w.dbSessions, id, clock),
                               !.sessionId = id],
               next |-> [c EXCEPT !.pc = "openSegment", !.sessionId = id]]
         [] c.pc = "openSegment" ->
              LET segStore == openSegmentOf(w.dbSegments, id, c.sessionId, c.topicId,
                                            c.subtopicId, clock)
                  opened == [w EXCEPT !.dbSegments = segStore, !.currentSegmentIdRef = id]
              IN IF c.call = "startSession"
                 THEN [w |-> [opened EXCEPT !.segments = <<segStore[id]>>,
                                            !.allSegments = Append(w.allSegments, segStore[id]),
                                            !.state = "running",
                                            !.isRunningRef = TRUE,
                                            !.animationFrameRef = TRUE],
                       next |-> to("done")]
                 ELSE [w |-> opened, next |-> to(RefreshFirst(c))]
         [] c.pc = "closeSegment" ->
              LET closed == [w EXCEPT !.dbSegments = closeSegmentOf(w.dbSegments, c.seg, clock)]
              IN CASE c.call = "pauseSession" ->
                        [w |-> [closed EXCEPT !.currentSegmentIdRef = NULL],
                         next |-> to(RefreshFirst(c))]
                   [] c.call = "endCurrentSession" ->
                        [w |-> [closed EXCEPT !.currentSegmentIdRef = NULL],
                         next |-> to(IF c.sessionId # NULL THEN "endSession"
                                     ELSE "getAllSegments")]
                   [] OTHER -> [w |-> closed, next |-> to("openSegment")]
         [] c.pc = "endSession" ->
              [w |-> [w EXCEPT !.dbSessions = endSessionOf(w.dbSessions, c.sessionId, clock)],
               next |-> to("getAllSegments")]
         [] c.pc = "getSegmentsBySession" ->
              LET segs == getSegmentsBySessionOf(w.dbSegments, c.sessionId)
              IN IF c.call = "initAndRecover"
                 THEN [w |-> [w EXCEPT !.segments = segs],
                       next |-> [c EXCEPT !.pc = "getOpenSegment",
                                          !.seg = IF segs = << >> THEN NULL
                                                  ELSE segs[Len(segs)].id]]
                 ELSE [w |-> [w EXCEPT !.segments = segs], next |-> to("getAllSegments")]
         [] c.pc = "getAllSegments" ->
              LET loaded == [w EXCEPT !.allSegments = allSegs]
                  refreshed == [loaded EXCEPT
                                   !.historyRefreshTrigger = w.historyRefreshTrigger + 1]
              IN CASE c.call = "initAndRecover" ->
                        [w |-> [loaded EXCEPT !.allTimeTotal = times.allTime,
                                              !.todayTime = times.todayTime],
                         next |-> to("getUnclosedSession")]
                   [] c.call = "endCurrentSession" ->
                        [w |-> [refreshed EXCEPT !.allTimeTotal = times.allTime,
                                                 !.todayTime = times.todayTime,
                                                 !.sessionId = NULL,
                                                 !.currentTopicId = NULL,
                                                 !.currentSubtopicId = NULL,
                                                 !.segments = << >>,
                                                 !.topicTime = 0,
                                                 !.subtopicTime = 0,
                                                 !.state = "idle"],
                         next |-> to("done")]
                   [] c.call = "pauseSession" ->
                        [w |-> [refreshed EXCEPT !.state = "paused"], next |-> to("done")]
                   [] c.call = "resumeSession" ->
                        [w |-> [refreshed EXCEPT !.state = "running",
                                                 !.isRunningRef = TRUE,
                                                 !.animationFrameRef = TRUE],
                         next |-> to("done")]
                   [] OTHER ->
                        [w |-> [refreshed EXCEPT !.currentTopicId = c.topicId,
                                                 !.currentSubtopicId = NULL],
                         next |-> to("done")]
         [] c.pc = "initDB" -> [w |-> w, next |-> to("getAllSegments")]
         [] c.pc = "getUnclosedSession" ->
              LET unclosed == getUnclosedSessionOf(w.dbSessions)
              IN IF unclosed # NULL
                 THEN [w |-> [w EXCEPT !.sessionId = unclosed],
                       next |-> [c EXCEPT !.pc = "getSegmentsBySession",
                                          !.sessionId = unclosed]]
                 ELSE [w |-> w, next |-> to("done")]
         [] c.pc = "getOpenSegment" ->
              LET openSeg == getOpenSegmentOf(w.dbSegments, c.sessionId)
              IN IF openSeg # NULL
                 THEN [w |-> [w EXCEPT !.currentSegmentIdRef = openSeg,
                                       !.currentTopicId = w.dbSegments[openSeg].topicId,
                                       !.currentSubtopicId = w.dbSegments[openSeg].subtopicId,
                                       !.state = "running",
                                       !.isRunningRef = TRUE,
                                       !.animationFrameRef = TRUE],
                       next |-> to("done")]
                 ELSE IF c.seg # NULL
                 THEN [w |-> [w EXCEPT !.currentTopicId = w.dbSegments[c.seg].topicId,
                                       !.currentSubtopicId = w.dbSegments[c.seg].subtopicId,
                                       !.state = "paused"],
                       next |-> to("done")]
                 ELSE [w |-> [w EXCEPT !.state = "paused"], next |-> to("done")]

\* no engine call is awaiting a storage operation
Quiescent == inFlight = << >>

\* the ids a completing operation may give to the record it adds
NewIds(c) ==
    CASE c.pc = "createSession" -> FreshSessionIds
      [] c.pc = "openSegment" -> FreshSegmentIds
      [] OTHER -> {NULL}

\* r is the outcome of a call's run up to its next await; rest are the other calls awaiting
Suspend(r, rest) ==
    /\ r.w.historyRefreshTrigger <= MaxHistoryTrigger
    /\ SetWorld(r.w)
    /\ inFlight' = IF r.next.pc = "done" THEN rest ELSE Append(rest, r.next)
    /\ UNCHANGED <<clock, pomVars, ledgerVars, ghostVars, deletedIds, hiddenSpan>>
    /\ LoadHistory_Panel

\* the page calls action a; the page offers it whenever `offered` holds, whatever awaits
Invoked(a, t, offered) ==
    /\ offered
    /\ ~pomodoroEnabled
    /\ Len(inFlight) < MaxInFlight
    /\ last' = Step(a, TRUE)
    /\ overlapped' = (overlapped \/ inFlight # << >>)
    /\ Suspend(AsyncInvoke(World, a, t), inFlight)

StartInvoked == Invoked("startSession", NULL, state = "idle")

PauseInvoked == Invoked("pauseSession", NULL, state = "running")

ResumeInvoked == Invoked("resumeSession", NULL, state = "paused")

EndInvoked == Invoked("endCurrentSession", NULL, state # "idle")

TopicInvoked == \E t \in TopicOrNull : Invoked("setTopic", t, state # "idle")

\* the oldest pending storage operation completes and its caller goes on
OperationCompletes ==
    /\ inFlight # << >>
    /\ last' = Step("await", TRUE)
    /\ UNCHANGED overlapped
    /\ \E id \in NewIds(Head(inFlight)) :
          Suspend(AsyncResume(World, Head(inFlight), id), Tail(inFlight))

\* page load: the calls of the page that went away never go on; a new useStudyTimer is
\* constructed and its mount effect calls initAndRecover, which awaits initDB
PageLoad ==
    /\ last' = Step("reload", TRUE)
    /\ UNCHANGED overlapped
    /\ Suspend([w |-> [World EXCEPT !.state = "idle", !.sessionId = NULL,
                                    !.currentTopicId = NULL, !.currentSubtopicId = NULL,
                                    !.segments = << >>, !.allSegments = << >>,
                                    !.todayTime = 0, !.allTimeTotal = 0,
                                    !.topicTime = 0, !.subtopicTime = 0,
                                    !.currentSegmentIdRef = NULL, !.isRunningRef = FALSE,
                                    !.animationFrameRef = FALSE,
                                    !.historyRefreshTrigger = 0],
                next |-> CallOf("initAndRecover", "initDB", NULL, NULL, NULL, NULL)],
               << >>)

\* ------------------------------------------ engine interface, called freely
DoStartSession ==
    /\ UNCHANGED pomVars
    /\ StartSession(0)
    /\ GhostStep
    /\ LoadHistory

DoPauseSession ==
    /\ UNCHANGED pomVars
    /\ PauseSession(0)
    /\ GhostStep
    /\ LoadHistory

DoResumeSession ==
    /\ UNCHANGED pomVars
    /\ ResumeSession(0)
    /\ GhostStep
    /\ LoadHistory

DoEndCurrentSession ==
    /\ UNCHANGED pomVars
    /\ EndCurrentSession(0)
    /\ GhostStep
    /\ LoadHistory

DoSetTopic ==
    /\ UNCHANGED pomVars
    /\ \E t \in TopicOrNull : SetTopic(t, 0)
    /\ GhostStep
    /\ LoadHistory

DoSetSubtopic ==
    /\ UNCHANGED pomVars
    /\ \E u \in SubtopicOrNull : SetSubtopic(u, 0)
    /\ GhostStep
    /\ LoadHistory

DoResumeWithContext ==
    /\ UNCHANGED pomVars
    /\ \E t \in TopicOrNull, u \in SubtopicOrNull : ResumeWithContext(t, u, 0)
    /\ GhostStep
    /\ LoadHistory

\* an engine action during which the f-th storage write rejects
StorageFailure ==
    /\ UNCHANGED pomVars
    /\ \E f \in 1..2 :
          \/ StartSession(f)
          \/ f = 1 /\ PauseSession(f)
          \/ f = 1 /\ ResumeSession(f)
          \/ EndCurrentSession(f)
          \/ \E t \in TopicOrNull : SetTopic(t, f)
          \/ \E u \in SubtopicOrNull : SetSubtopic(u, f)
          \/ \E t \in TopicOrNull, u \in SubtopicOrNull : ResumeWithContext(t, u, f)
    /\ GhostStep
    /\ LoadHistory

\* the process ends between two storage writes of an action the page offers: the writes
\* made so far are in the store, exactly as when the next write rejects, and what the
\* engine holds in memory is lost with the process (the next step is a page load)
TerminatedBetweenWrites ==
    /\ ~pomodoroEnabled
    /\ UNCHANGED pomVars
    /\ \/ state = "idle" /\ StartSession(2)
       \/ state # "idle" /\ EndCurrentSession(2)
       \/ state # "idle" /\ \E t \in TopicOrNull : SetTopic(t, 2)
       \/ state # "idle" /\ \E u \in SubtopicOrNull : SetSubtopic(u, 2)
    /\ GhostStep
    /\ LoadHistory

\* ------------------------------------------------------------ direct Ledger
LedgerSegments(starts, ends) ==
    [id : {1}, sessionId : {1}, topicId : TopicOrNull, subtopicId : SubtopicOrNull,
     startTs : starts, endTs : ends]

UntaggedSegments(starts, ends) ==
    [id : {1}, sessionId : {1}, topicId : {NULL}, subtopicId : {NULL},
     startTs : starts, endTs : ends]

SeqsUpTo(S, n) == UNION {[1..k -> S] : k \in 0..n}

\* any stored timestamps, any reference instant
AnyLedgerCalls ==
    [segs : SeqsUpTo(LedgerSegments(0..MaxLedgerTs, (0..MaxLedgerTs) \cup {NULL}),
                     MaxLedgerLen),
     now : 0..MaxLedgerTs, topicId : TopicOrNull, subtopicId : SubtopicOrNull]

\* what the engine stores under a clock that never runs backwards
WellFormed(seg, now) ==
    /\ seg.startTs <= now
    /\ seg.endTs # NULL => seg.startTs <= seg.endTs /\ seg.endTs <= now

OrderedLedgerCalls ==
    {c \in [segs : SeqsUpTo(UntaggedSegments(1..MaxLedgerTs, (1..MaxLedgerTs) \cup {NULL}),
                            MaxLedgerLen),
            now : 1..MaxLedgerTs, topicId : {NULL}, subtopicId : {NULL}] :
        \A i \in 1..Len(c.segs) : WellFormed(c.segs[i], c.now)}

\* one call of computeTimesFromSegments at the instant now
LedgerCompute ==
    /\ last.op # "ledger"
    /\ ledgerOut' = computeTimesFromSegments(ledgerIn.segs, ledgerIn.now, ledgerIn.topicId,
                                             ledgerIn.subtopicId, ledgerIn.segs,
                                             ledgerIn.now)
    /\ last' = Step("ledger", TRUE)
    /\ UNCHANGED <<clock, storeVars, engineVars, pomVars, ghostVars, ledgerIn, historyVars,
                   deletedIds, asyncVars, hiddenSpan>>

\* segments of several sessions, as the store returns them
SessionSegments(starts, ends) ==
    [id : {1}, sessionId : SessionIds, topicId : TopicOrNull, subtopicId : SubtopicOrNull,
     startTs : starts, endTs : ends]

\* the store's segments, the instant, the selection and the current session
SessionLedgerCalls ==
    [segs : SeqsUpTo(SessionSegments(1..MaxLedgerTs, (1..MaxLedgerTs) \cup {NULL}),
                     MaxLedgerLen),
     now : 1..MaxLedgerTs, topicId : TopicOrNull, subtopicId : SubtopicOrNull,
     sessionId : SessionIds]

\* getSegmentsBySession on a list of stored segments
SegmentsOfSession(segs, sid) == SelectSeq(segs, LAMBDA seg : seg.sessionId = sid)

\* the engine's call: all segments, and the current session's segments as sessionSegments
LedgerComputeForSession ==
    /\ last.op # "sessionLedger"
    /\ ledgerOut' = computeTimesFromSegments(ledgerIn.segs, ledgerIn.now, ledgerIn.topicId,
                                             ledgerIn.subtopicId,
                                             SegmentsOfSession(ledgerIn.segs,
                                                               ledgerIn.sessionId),
                                             ledgerIn.now)
    /\ last' = Step("sessionLedger", TRUE)
    /\ UNCHANGED <<clock, storeVars, engineVars, pomVars, ghostVars, ledgerIn, historyVars,
                   deletedIds, asyncVars, hiddenSpan>>

\* ------------------------------------------------------------ specifications
Next ==
    \/ DoStartSession
    \/ DoPauseSession
    \/ DoResumeSession
    \/ DoEndCurrentSession
    \/ DoSetTopic
    \/ DoSetSubtopic
    \/ DoResumeWithContext
    \/ AdvanceClock
    \/ Tick
    \/ Reload
    \/ RecoverAgain

Spec == Init /\ [][Next]_vars

\* a storage failure is the last step explored: the engine is followed up to and through
\* the first action in which a storage write rejects
NextFail ==
    \/ last.ok /\ DoStartSession
    \/ last.ok /\ DoPauseSession
    \/ last.ok /\ DoResumeSession
    \/ last.ok /\ DoEndCurrentSession
    \/ last.ok /\ DoSetTopic
    \/ last.ok /\ DoSetSubtopic
    \/ last.ok /\ DoResumeWithContext
    \/ last.ok /\ AdvanceClock
    \/ last.ok /\ StorageFailure

SpecFail == Init /\ [][NextFail]_vars

NextUI ==
    \/ SetPomodoroEnabled(TRUE)
    \/ SetPomodoroEnabled(FALSE)
    \/ HandleStart
    \/ HandlePause
    \/ HandleResume
    \/ HandleEnd
    \/ SelectTopic
    \/ SelectSubtopic
    \/ AdvanceClock
    \/ Tick

SpecUI == Init /\ [][NextUI]_vars

\* the page with Pomodoro mode off, its history panel, and page reloads
NextHistory ==
    \/ HandleStart
    \/ HandlePause
    \/ HandleResume
    \/ HandleEnd
    \/ SelectTopic
    \/ SelectSubtopic
    \/ DoResumeWithContext
    \/ DeleteSelected
    \/ AdvanceClock
    \/ Reload

SpecHistory == Init /\ [][NextHistory]_vars

\* the page with Pomodoro mode off, whose process may end in the middle of an action
NextCrash ==
    \/ last.ok /\ HandleStart
    \/ last.ok /\ HandlePause
    \/ last.ok /\ HandleResume
    \/ last.ok /\ HandleEnd
    \/ last.ok /\ SelectTopic
    \/ last.ok /\ SelectSubtopic
    \/ last.ok /\ AdvanceClock
    \/ last.ok /\ TerminatedBetweenWrites
    \/ Reload

SpecCrash == Init /\ [][NextCrash]_vars

\* the page with Pomodoro mode off, its engine actions taken await by await
NextAsync ==
    \/ StartInvoked
    \/ PauseInvoked
    \/ ResumeInvoked
    \/ EndInvoked
    \/ TopicInvoked
    \/ OperationCompletes
    \/ PageLoad

SpecAsync == Init /\ [][NextAsync]_vars

\* the same page with its recomputation loop; time passes and frames run between the calls
NextAsyncLoop ==
    \/ StartInvoked
    \/ PauseInvoked
    \/ ResumeInvoked
    \/ EndInvoked
    \/ OperationCompletes
    \/ Quiescent /\ AdvanceClock
    \/ Quiescent /\ Tick

SpecAsyncLoop == Init /\ [][NextAsyncLoop]_vars

\* the page in stopwatch mode in a tab that is hidden and shown; a hidden page gets no input
NextVisibility ==
    \/ ~hidden /\ HandleStart
    \/ ~hidden /\ HandlePause
    \/ ~hidden /\ HandleResume
    \/ ~hidden /\ HandleEnd
    \/ ~hidden /\ SelectTopic
    \/ AdvanceClock
    \/ Tick
    \/ PageHidden
    \/ PageVisible

SpecVisibility == Init /\ [][NextVisibility]_vars

\* the engine's loop has a frame requested whose recomputation would change a figure: frames
\* come many times per unit of time, so it runs before the clock moves on
EngineFrameDue ==
    /\ animationFrameRef
    /\ isRunningRef
    /\ LET times == computeTimesFromSegments(allSegments, clock, currentTopicId,
                                             currentSubtopicId, segments, clock)
       IN <<allTimeTotal, todayTime, topicTime, subtopicTime>>
             # <<times.allTime, times.todayTime, times.topicTime, times.subtopicTime>>

\* the page in stopwatch mode from the instant Date.now() is 0, with page reloads
NextEpoch ==
    \/ HandleStart
    \/ HandlePause
    \/ HandleResume
    \/ HandleEnd
    \/ AdvanceClock
    \/ Tick
    \/ Reload

SpecEpoch == InitEpoch /\ [][NextEpoch]_vars

\* the page in Pomodoro mode: the buttons drive the engine and the countdown together, the
\* countdown changes phase on its own or by skip, and the settings dialog is at hand
NextPhases ==
    \/ SetPomodoroEnabled(TRUE)
    \/ pomodoroEnabled /\ phaseTimeouts = 0 /\ HandleStart
    \/ pomodoroEnabled /\ phaseTimeouts = 0 /\ HandlePause
    \/ pomodoroEnabled /\ phaseTimeouts = 0 /\ HandleResume
    \/ pomodoroEnabled /\ phaseTimeouts = 0 /\ HandleEnd
    \/ PomodoroSkip
    \/ PomodoroTick
    \/ PomodoroTimeout
    \/ UpdateSettings
    \/ EngineFrameDue /\ Tick
    \/ ~EngineFrameDue /\ PomodoroElapse

SpecPhases == Init /\ [][NextPhases]_vars

\* the Pomodoro countdown of a page in Pomodoro mode
InitPomodoro ==
    /\ InitBase
    /\ ledgerIn = NoLedgerCall

NextPomodoro ==
    \/ SetPomodoroEnabled(TRUE)
    \/ PomodoroStart
    \/ PomodoroPause
    \/ PomodoroResume
    \/ PomodoroStop
    \/ PomodoroSkip
    \/ PomodoroTick
    \/ PomodoroTimeout
    \/ TabHidden
    \/ TabVisible
    \/ PomodoroReload
    \/ PomodoroElapse

SpecPomodoro == InitPomodoro /\ [][NextPomodoro]_vars

\* the countdown in a visible tab, with frames, clicks and 0 ms timers in either order
NextExpiry ==
    \/ SetPomodoroEnabled(TRUE)
    \/ PomodoroStart
    \/ PomodoroPause
    \/ PomodoroResume
    \/ PomodoroStop
    \/ PomodoroTick
    \/ TickBeforeTimeout
    \/ PomodoroTimeout
    \/ PomodoroElapse
    \/ ElapseBeforeTimeout
    \/ StopBeforeTimeout

SpecExpiry == InitPomodoro /\ [][NextExpiry]_vars

\* usePomodoro driven through its interface, with no page in front of it
NextOverlay ==
    \/ StartCalled
    \/ PauseCalled
    \/ ResumeCalled
    \/ StopCalled
    \/ SkipCalled
    \/ PomodoroTick
    \/ PomodoroTimeout
    \/ TabHidden
    \/ TabVisible
    \/ PomodoroReload
    \/ PomodoroElapse

SpecOverlay == InitPomodoro /\ [][NextOverlay]_vars

InitLedger == InitBase /\ ledgerIn \in AnyLedgerCalls

SpecLedger == InitLedger /\ [][LedgerCompute]_vars

InitToday == InitBase /\ ledgerIn \in OrderedLedgerCalls

SpecToday == InitToday /\ [][LedgerCompute]_vars

\* ------------------------------------------------------------------ properties
OpenSegmentsOf(sid) ==
    {g \in DOMAIN dbSegments : dbSegments[g].sessionId = sid /\ dbSegments[g].endTs = NULL}

OpenSegments == {g \in DOMAIN dbSegments : dbSegments[g].endTs = NULL}

UnclosedSessions == {s \in DOMAIN dbSessions : dbSessions[s].endTs = NULL}

\* C1: after any sequence of engine actions, called in any order and from any state, every
\* session has at most one stored segment with endTs = null, and there is no open segment
\* if and only if the engine state is idle or paused.
C1_OneOpenSegmentIffRunning ==
    /\ \A sid \in DOMAIN dbSessions : Cardinality(OpenSegmentsOf(sid)) <= 1
    /\ (OpenSegments = {}) <=> (state \in {"idle", "paused"})

\* C2: whatever start / pause / resume / end commands the page issues, in stopwatch or in
\* Pomodoro mode, the store holds at most one session with endTs = null.
C2_AtMostOneUnclosedSession == Cardinality(UnclosedSessions) <= 1

\* C3: when a session the engine started is ended, allTime over that session's segments
\* equals the wall-clock time the engine spent in the running state during the session
\* (stated for a session whose only open segment, if any, is the engine's current one).
C3_AllTimeIsRunningTime ==
    [][(/\ last'.op = "endCurrentSession"
        /\ last'.ok
        /\ sessionId # NULL
        /\ runAcc # NULL
        /\ OpenSegmentsOf(sessionId) \subseteq {currentSegmentIdRef})
         => AllTimeOf(getSegmentsBySessionOf(dbSegments', sessionId), clock') = runAcc']_vars

\* C4: setTopic or setSubtopic while running closes the open segment and opens a new one
\* at the same instant (the new segment's startTs is the closed segment's endTs) carrying
\* the new tag; the engine stays running and the session is unchanged.
C4_SwitchAtSameInstant ==
    [][(/\ last'.op \in {"setTopic", "setSubtopic"}
        /\ last'.ok
        /\ state = "running"
        /\ sessionId # NULL
        /\ currentSegmentIdRef \in OpenSegmentsOf(sessionId))
         => /\ currentSegmentIdRef' \notin DOMAIN dbSegments
            /\ currentSegmentIdRef' \in DOMAIN dbSegments'
            /\ dbSegments'[currentSegmentIdRef].endTs # NULL
            /\ dbSegments'[currentSegmentIdRef'].endTs = NULL
            /\ dbSegments'[currentSegmentIdRef'].startTs = dbSegments'[currentSegmentIdRef].endTs
            /\ dbSegments'[currentSegmentIdRef'].topicId = currentTopicId'
            /\ dbSegments'[currentSegmentIdRef'].subtopicId = currentSubtopicId'
            /\ state' = "running"
            /\ sessionId' = sessionId]_vars

\* the segment added by the step, when the step adds exactly one
AddedSegment == CHOOSE g \in DOMAIN dbSegments' : g \notin DOMAIN dbSegments

\* the step adds exactly one segment and leaves every stored segment as it was
AddsOneSegment ==
    /\ Cardinality(DOMAIN dbSegments' \ DOMAIN dbSegments) = 1
    /\ \A g \in DOMAIN dbSegments : dbSegments'[g] = dbSegments[g]

\* C5 as stated: resumeSession from paused opens exactly one new segment in the current
\* session whose topicId and subtopicId are those of the segment closed by the preceding
\* pause, and the state becomes running.
C5_ResumeKeepsPausedTags ==
    [][(/\ last'.op = "resumeSession"
        /\ last'.ok
        /\ state = "paused"
        /\ sessionId # NULL
        /\ pausedSegment # NULL)
         => /\ AddsOneSegment
            /\ dbSegments'[AddedSegment].sessionId = sessionId
            /\ dbSegments'[AddedSegment].topicId = dbSegments[pausedSegment].topicId
            /\ dbSegments'[AddedSegment].subtopicId = dbSegments[pausedSegment].subtopicId
            /\ state' = "running"]_vars

\* C5 amended: resumeSession from paused sets the state to running; when the engine holds
\* a session it opens exactly one new segment, in that session, open, starting now and
\* tagged with the engine's currently selected topic and subtopic, and becomes the
\* engine's current segment; when the engine holds no session it writes nothing.
C5_ResumeUsesCurrentSelection ==
    [][(last'.op = "resumeSession" /\ last'.ok /\ state = "paused")
         => /\ state' = "running"
            /\ sessionId' = sessionId
            /\ dbSessions' = dbSessions
            /\ IF sessionId # NULL
               THEN /\ AddsOneSegment
                    /\ currentSegmentIdRef' = AddedSegment
                    /\ dbSegments'[AddedSegment] =
                          [id |-> AddedSegment, sessionId |-> sessionId,
                           topicId |-> currentTopicId, subtopicId |-> currentSubtopicId,
                           startTs |-> clock, endTs |-> NULL]
               ELSE dbSegments' = dbSegments]_vars

\* C5 witness: a resume from paused has opened a tagged segment in a session whose
\* earlier segment, closed by the pause, carries another tag.
C5_Witness ==
    /\ last.op = "resumeSession"
    /\ last.from = "paused"
    /\ state = "running"
    /\ currentSegmentIdRef \in OpenSegmentsOf(sessionId)
    /\ dbSegments[currentSegmentIdRef].topicId # NULL
    /\ \E g \in DOMAIN dbSegments :
          /\ dbSegments[g].sessionId = sessionId
          /\ dbSegments[g].endTs # NULL
          /\ dbSegments[g].topicId # dbSegments[currentSegmentIdRef].topicId

\* C6: an engine action in which a storage write rejects leaves state, session id, current
\* segment id, loop flag, topic and subtopic exactly as they were before it was called.
C6_FailedActionChangesNothing ==
    [][(~last'.ok) => EngineFields' = EngineFields]_vars

\* the time a stored segment spans up to the instant now
ElapsedOf(g, now) ==
    (IF dbSegments[g].endTs = NULL THEN now ELSE dbSegments[g].endTs) - dbSegments[g].startTs

RECURSIVE SumElapsed(_, _)
SumElapsed(G, now) ==
    IF G = {} THEN 0
    ELSE LET g == CHOOSE x \in G : TRUE
         IN ElapsedOf(g, now) + SumElapsed(G \ {g}, now)

\* the open segment recovery resumes, NULL if recovery finds none
RecoveredOpenSegment == getOpenSegmentOf(dbSegments, getUnclosedSessionOf(dbSessions))

\* C7: a page load that finds an unclosed session with an open segment started at t0 sets
\* the state to running, takes topic and subtopic from that segment, writes nothing, and
\* reports an allTime at the restart instant that includes the whole of now - t0.
C7_RecoveryResumesOpenSegment ==
    [][(last'.op = "reload" /\ RecoveredOpenSegment # NULL)
         => /\ state' = "running"
            /\ sessionId' = getUnclosedSessionOf(dbSessions)
            /\ currentSegmentIdRef' = RecoveredOpenSegment
            /\ currentTopicId' = dbSegments[RecoveredOpenSegment].topicId
            /\ currentSubtopicId' = dbSegments[RecoveredOpenSegment].subtopicId
            /\ UNCHANGED storeVars
            /\ allTimeTotal' = SumElapsed(DOMAIN dbSegments \ {RecoveredOpenSegment}, clock)
                               + (clock - dbSegments[RecoveredOpenSegment].startTs)]_vars

\* C7 witness: a page load has resumed a tagged open segment that began before the load.
C7_Witness ==
    /\ last.op = "reload"
    /\ state = "running"
    /\ currentSegmentIdRef \in OpenSegments
    /\ dbSegments[currentSegmentIdRef].startTs < clock
    /\ currentTopicId # NULL
    /\ currentTopicId = dbSegments[currentSegmentIdRef].topicId
    /\ allTimeTotal >= clock - dbSegments[currentSegmentIdRef].startTs

\* C8: recovery writes nothing; run a second time with nothing in between it leaves state,
\* session id, current segment id, topic and subtopic as the first run set them; with no
\* unclosed session in the store the engine is idle with no session and no segment.
C8_RecoveryIdempotent ==
    [][(last'.op \in {"reload", "recoverAgain"})
         => /\ UNCHANGED storeVars
            /\ last'.op = "recoverAgain" => EngineFields' = EngineFields
            /\ getUnclosedSessionOf(dbSessions) = NULL
                  => /\ state' = "idle"
                     /\ sessionId' = NULL
                     /\ currentSegmentIdRef' = NULL
                     /\ ~isRunningRef']_vars

\* C8 witness: recovery has run a second time on a store holding an unclosed session
\* with an open segment.
C8_Witness ==
    /\ last.op = "recoverAgain"
    /\ state = "running"
    /\ sessionId \in UnclosedSessions
    /\ currentSegmentIdRef \in OpenSegmentsOf(sessionId)

\* C9: whatever the stored timestamps and the reference instant, each output of the
\* Ledger is at least 0.
C9_NoNegativeTime ==
    last.op = "ledger"
       => /\ ledgerOut.allTime >= 0
          /\ ledgerOut.todayTime >= 0
          /\ ledgerOut.topicTime >= 0
          /\ ledgerOut.subtopicTime >= 0

\* length of the overlap of [startTs, endTs or now] with [start of now's day, now]
OverlapWithToday(seg, now) ==
    LET segEnd == IF seg.endTs = NULL THEN now ELSE seg.endTs
        lo == Max2(seg.startTs, StartOfDay(now))
        hi == Min2(segEnd, now)
    IN Max2(0, hi - lo)

RECURSIVE OverlapSum(_, _)
OverlapSum(segs, now) ==
    IF segs = << >> THEN 0
    ELSE OverlapWithToday(Head(segs), now) + OverlapSum(Tail(segs), now)

\* C10: todayTime is the sum over the segments of the overlap of [startTs, endTs or now]
\* with [start of the day containing now, now]; a segment opened before midnight and
\* still open counts only from midnight.
C10_TodayTimeIsOverlap ==
    last.op = "ledger" => ledgerOut.todayTime = OverlapSum(ledgerIn.segs, ledgerIn.now)

\* C10 witness: a segment opened the day before and still open at now has been counted
\* from midnight only.
C10_Witness ==
    /\ last.op = "ledger"
    /\ Len(ledgerIn.segs) = 1
    /\ ledgerIn.segs[1].endTs = NULL
    /\ ledgerIn.segs[1].startTs < StartOfDay(ledgerIn.now)
    /\ StartOfDay(ledgerIn.now) < ledgerIn.now
    /\ ledgerOut.todayTime = ledgerIn.now - StartOfDay(ledgerIn.now)
    /\ ledgerOut.todayTime < ledgerIn.now - ledgerIn.segs[1].startTs
InitSession == InitBase /\ ledgerIn \in SessionLedgerCalls

SpecSession == InitSession /\ [][LedgerComputeForSession]_vars

\* the indices of the segments of session sid whose field carries tag
TaggedIn(segs, sid, field, tag) ==
    {i \in 1..Len(segs) : segs[i].sessionId = sid /\ segs[i][field] = tag}

RECURSIVE SumOver(_, _, _)
SumOver(segs, J, now) ==
    IF J = {} THEN 0
    ELSE LET i == CHOOSE x \in J : TRUE
         IN (IF segs[i].endTs = NULL THEN now ELSE segs[i].endTs) - segs[i].startTs
            + SumOver(segs, J \ {i}, now)

RECURSIVE ClosedSumOver(_, _)
ClosedSumOver(segs, J) ==
    IF J = {} THEN 0
    ELSE LET i == CHOOSE x \in J : TRUE
         IN segs[i].endTs - segs[i].startTs + ClosedSumOver(segs, J \ {i})

SessionHasNoOpenSegment ==
    \A i \in 1..Len(ledgerIn.segs) :
        ledgerIn.segs[i].sessionId = ledgerIn.sessionId => ledgerIn.segs[i].endTs # NULL

\* C11: topicTime (subtopicTime) is the sum of (endTs, or now if open) - startTs over the
\* segments of the current session whose topicId (subtopicId) is the selected one, other
\* sessions contributing nothing; when the session has no open segment it is the sum of
\* endTs - startTs over those segments, whatever now is.
C11_TagTimeOverCurrentSession ==
    last.op = "sessionLedger"
       => LET segs == ledgerIn.segs
              T == TaggedIn(segs, ledgerIn.sessionId, "topicId", ledgerIn.topicId)
              U == TaggedIn(segs, ledgerIn.sessionId, "subtopicId", ledgerIn.subtopicId)
          IN /\ ledgerIn.topicId # NULL => ledgerOut.topicTime = SumOver(segs, T, ledgerIn.now)
             /\ ledgerIn.subtopicId # NULL
                   => ledgerOut.subtopicTime = SumOver(segs, U, ledgerIn.now)
             /\ (SessionHasNoOpenSegment /\ ledgerIn.topicId # NULL)
                   => ledgerOut.topicTime = ClosedSumOver(segs, T)
             /\ (SessionHasNoOpenSegment /\ ledgerIn.subtopicId # NULL)
                   => ledgerOut.subtopicTime = ClosedSumOver(segs, U)

\* C11 witness: the selected topic tags a segment of the current session and a segment of
\* another session, both of positive length, and only the first has been counted.
C11_Witness ==
    /\ last.op = "sessionLedger"
    /\ ledgerIn.topicId # NULL
    /\ Len(ledgerIn.segs) = 2
    /\ ledgerIn.segs[1].sessionId # ledgerIn.sessionId
    /\ ledgerIn.segs[2].sessionId = ledgerIn.sessionId
    /\ ledgerIn.segs[1].topicId = ledgerIn.topicId
    /\ ledgerIn.segs[2].topicId = ledgerIn.topicId
    /\ ledgerIn.segs[1].endTs # NULL
    /\ ledgerIn.segs[1].endTs > ledgerIn.segs[1].startTs
    /\ ledgerIn.segs[2].endTs = NULL
    /\ ledgerIn.now > ledgerIn.segs[2].startTs
    /\ ledgerOut.topicTime = ledgerIn.now - ledgerIn.segs[2].startTs
\* the session added by the step, when the step adds exactly one
AddedSession == CHOOSE x \in DOMAIN dbSessions' : x \notin DOMAIN dbSessions

\* the step adds exactly one session and leaves every stored session as it was
AddsOneSession ==
    /\ Cardinality(DOMAIN dbSessions' \ DOMAIN dbSessions) = 1
    /\ \A x \in DOMAIN dbSessions : dbSessions'[x] = dbSessions[x]

\* C12: startSession from idle creates exactly one session, unclosed, and exactly one
\* segment, open, in that session, with topicId and subtopicId null; the state becomes
\* running and the new session and segment are the engine's current ones.
C12_StartFromIdle ==
    [][(last'.op = "startSession" /\ last'.ok /\ state = "idle")
         => /\ AddsOneSession
            /\ dbSessions'[AddedSession].endTs = NULL
            /\ AddsOneSegment
            /\ dbSegments'[AddedSegment].sessionId = AddedSession
            /\ dbSegments'[AddedSegment].topicId = NULL
            /\ dbSegments'[AddedSegment].subtopicId = NULL
            /\ dbSegments'[AddedSegment].endTs = NULL
            /\ state' = "running"
            /\ sessionId' = AddedSession
            /\ currentSegmentIdRef' = AddedSegment]_vars

\* C12 witness: a session started from idle is running on its one open untagged segment.
C12_Witness ==
    /\ last.op = "startSession"
    /\ last.from = "idle"
    /\ state = "running"
    /\ sessionId \in UnclosedSessions
    /\ OpenSegmentsOf(sessionId) = {currentSegmentIdRef}
    /\ dbSegments[currentSegmentIdRef].topicId = NULL
\* C13: pauseSession from running sets endTs on the session's open segment, leaves the
\* session unclosed, creates no segment, and the state becomes paused with no open segment
\* left in the store.
C13_PauseFromRunning ==
    [][(last'.op = "pauseSession" /\ last'.ok /\ state = "running")
         => /\ DOMAIN dbSegments' = DOMAIN dbSegments
            /\ \A g \in OpenSegmentsOf(sessionId) : dbSegments'[g].endTs # NULL
            /\ dbSessions' = dbSessions
            /\ state' = "paused"
            /\ OpenSegments' = {}]_vars
\* C14: after endCurrentSession completes from running or from paused the state is idle,
\* the session that was current has endTs set, and the store holds no unclosed session
\* and no open segment; from paused no stored segment is modified.
C14_EndClosesEverything ==
    [][(last'.op = "endCurrentSession" /\ last'.ok /\ state \in {"running", "paused"})
         => /\ state' = "idle"
            /\ sessionId # NULL => dbSessions'[sessionId].endTs # NULL
            /\ UnclosedSessions' = {}
            /\ OpenSegments' = {}
            /\ state = "paused" => dbSegments' = dbSegments]_vars
\* C15: resumeWithContext(topic, sub) from idle creates one new session and from paused
\* reuses the unclosed session; in both cases it opens exactly one segment, in that
\* session, tagged (topic, sub), closes none, and the state becomes running with the
\* current topic and subtopic equal to the segment's tags.
C15_ResumeWithContext ==
    [][(last'.op = "resumeWithContext" /\ last'.ok /\ state \in {"idle", "paused"})
         => /\ IF state = "idle"
               THEN /\ AddsOneSession
                    /\ sessionId' = AddedSession
               ELSE /\ dbSessions' = dbSessions
                    /\ sessionId' = sessionId
            /\ AddsOneSegment
            /\ dbSegments'[AddedSegment].sessionId = sessionId'
            /\ dbSegments'[AddedSegment].endTs = NULL
            /\ dbSegments'[AddedSegment].topicId = currentTopicId'
            /\ dbSegments'[AddedSegment].subtopicId = currentSubtopicId'
            /\ currentSegmentIdRef' = AddedSegment
            /\ state' = "running"]_vars

\* C16: every stored segment's sessionId is the id of a stored session, whatever engine
\* actions and deletions from the history panel have happened
C16_SegmentsReferenceSessions ==
    \A g \in DOMAIN dbSegments : dbSegments[g].sessionId \in DOMAIN dbSessions

EngineActions ==
    {"startSession", "pauseSession", "resumeSession", "endCurrentSession", "setTopic",
     "setSubtopic", "resumeWithContext"}

\* C17: on one page load historyRefreshTrigger never decreases, and every completed engine
\* action that opens or closes a stored segment leaves it strictly greater
C17_TriggerFollowsSegmentChanges ==
    [][/\ last'.op # "reload" => historyRefreshTrigger' >= historyRefreshTrigger
       /\ (last'.op \in EngineActions /\ last'.ok /\ dbSegments' # dbSegments)
             => historyRefreshTrigger' > historyRefreshTrigger]_vars

\* the step in which the countdown is found at or below zero: the 0 ms timer set by tick,
\* or the return to a tab whose snapshot says the remaining time has run out
ExpiredOnReturn ==
    /\ pomIsRunningRef
    /\ LET saved == loadPomodoroState(pomSaved, clock)
       IN /\ saved.present
          /\ saved.state.isActive
          /\ ~saved.isPaused
          /\ clock - saved.lastTick >= saved.state.timeRemaining

CountdownExpires ==
    \/ last'.op = "pomTimeout"
    \/ last'.op = "pomVisible" /\ ExpiredOnReturn

\* C19: when the countdown reaches zero in a work phase, the work-complete callback is
\* invoked once, a break begins with its full duration, the session counter keeps its
\* value, and the break is long exactly when the counter has reached sessionsBeforeLongBreak
C19_WorkPhaseEnds ==
    [][(CountdownExpires /\ pomState.mode = "work")
         => /\ callbacks' = [callbacks EXCEPT !.work = @ + 1]
            /\ pomState'.isActive
            /\ pomState'.mode = "break"
            /\ pomState'.currentSession = pomState.currentSession
            /\ pomState'.isBreakLong = (pomState.currentSession >= SessionsBeforeLongBreak)
            /\ pomState'.timeRemaining = IF pomState.currentSession >= SessionsBeforeLongBreak
                                          THEN LongBreakDuration
                                          ELSE ShortBreakDuration]_vars

\* a work countdown has run out and a long break has begun
C19_Witness ==
    /\ last.op = "pomTimeout"
    /\ pomState.mode = "break"
    /\ pomState.isBreakLong
    /\ callbacks.work >= 2

\* C20: when the countdown reaches zero in a break phase, the break-complete callback is
\* invoked once and a work phase begins with the full work duration; the session counter
\* becomes 1 after a long break and grows by one after a short break
C20_BreakPhaseEnds ==
    [][(CountdownExpires /\ pomState.mode = "break")
         => /\ callbacks' = [callbacks EXCEPT !.break = @ + 1]
            /\ pomState'.isActive
            /\ pomState'.mode = "work"
            /\ pomState'.timeRemaining = WorkDuration
            /\ pomState'.isBreakLong = FALSE
            /\ pomState'.currentSession = IF pomState.isBreakLong
                                           THEN 1
                                           ELSE pomState.currentSession + 1]_vars

\* a long break has run out and the counter is back at 1
C20_Witness ==
    /\ last.op = "pomTimeout"
    /\ pomState.mode = "work"
    /\ pomState.currentSession = 1
    /\ callbacks.break >= 2

\* nothing that is due at the present instant is still waiting to run
NothingDue == phaseTimeouts = 0 /\ ~FrameDue

\* since the reopening exactly one transition has fired: one completion callback, and the
\* following phase with its full duration counted from the reopening
OneTransitionSince(r) ==
    LET next == startNextPhase(r.phase)
    IN /\ callbacks = [r.calls EXCEPT ![next.callback] = @ + 1]
       /\ pomState = next.state
       /\ lastTickRef = r.at

ExpiryState(st) ==
    IF st.mode = "work"
    THEN [isActive |-> TRUE, mode |-> "break", currentSession |-> st.currentSession,
          isBreakLong |-> (st.currentSession >= SessionsBeforeLongBreak),
          timeRemaining |-> IF st.currentSession >= SessionsBeforeLongBreak
                            THEN LongBreakDuration ELSE ShortBreakDuration]
    ELSE [isActive |-> TRUE, mode |-> "work",
          currentSession |-> IF st.isBreakLong THEN 1 ELSE st.currentSession + 1,
          isBreakLong |-> FALSE, timeRemaining |-> WorkDuration]

\* C21: skip() during an active phase gives the phase, counter, long-break flag, full
\* countdown and callback that the expiry of that phase gives, whatever time remains
C21_SkipIsExpiry ==
    [][(last'.op = "pomSkip" /\ pomState.isActive)
         => /\ pomState' = ExpiryState(pomState)
            /\ callbacks' = [callbacks EXCEPT ![pomState.mode] = @ + 1]]_vars

\* a work phase skipped while part of its countdown was left
C21_Witness ==
    /\ last.op = "pomSkip"
    /\ pomState.mode = "break"
    /\ callbacks.work = 1
    /\ clock = 2
    /\ lastTickRef = 2

C23_StopResets ==
    [][last'.op = "pomStop"
         => /\ ~pomState'.isActive
            /\ pomState'.mode = "work"
            /\ pomState'.currentSession = 1
            /\ pomState'.timeRemaining = WorkDuration
            /\ ~isPaused'
            /\ ~pomSaved'.present]_vars

\* stopped after a work phase had run out, with a snapshot of the break in storage before
C23_Witness ==
    /\ last.op = "pomStop"
    /\ ~pomState.isActive
    /\ ~pomSaved.present
    /\ callbacks = [work |-> 1, break |-> 0]

\* C24: start() from any state of the overlay leaves it active, not paused, in the work
\* phase, with session counter 1 and the configured work duration to count
C24_StartBegins ==
    [][last'.op = "pomStart"
         => /\ pomState'.isActive
            /\ ~isPaused'
            /\ pomState'.mode = "work"
            /\ pomState'.currentSession = 1
            /\ pomState'.timeRemaining = WorkDuration]_vars

\* started again from the second work phase
C24_Witness ==
    /\ last.op = "pomStart"
    /\ pomState.isActive
    /\ pomState.currentSession = 1
    /\ callbacks = [work |-> 1, break |-> 1]

\* C25: a page loaded while the stored snapshot is older than the recency window discards
\* the snapshot and starts fresh: inactive, work phase, counter 1, not paused, the full
\* work duration, nothing fast-forwarded
C25_StaleSnapshotDiscarded ==
    [][(last'.op = "pomReload" /\ pomSaved.present
          /\ clock - pomSaved.savedAt > SnapshotMaxAge)
         => /\ pomState' = PomFresh
            /\ ~isPaused'
            /\ ~pomSaved'.present
            /\ callbacks' = callbacks]_vars

\* a page loaded after the window, the snapshot being that of a running phase
C25_Witness ==
    /\ last.op = "pomReload"
    /\ reopened.by = "reload"
    /\ reopened.age > SnapshotMaxAge
    /\ pomState = PomFresh
    /\ ~pomSaved.present

\* the records of S with the greatest startTs
MostRecentIn(store, S) == {x \in S : \A y \in S : store[y].startTs <= store[x].startTs}

\* C28: a page load that finds more than one unclosed session, or more than one open
\* segment in the session it recovers, adopts the most recently started one (greatest
\* startTs) and leaves every other unclosed session and open segment closed.
C28_RecoveryAdoptsMostRecent ==
    [][(/\ last'.op = "reload"
        /\ \/ Cardinality(UnclosedSessions) > 1
           \/ Cardinality(OpenSegmentsOf(getUnclosedSessionOf(dbSessions))) > 1)
         => /\ state' \in {"running", "paused"}
            /\ sessionId' \in MostRecentIn(dbSessions, UnclosedSessions)
            /\ state' = "running"
                  => currentSegmentIdRef' \in MostRecentIn(dbSegments, OpenSegmentsOf(sessionId'))
            /\ UnclosedSessions' \subseteq {sessionId'}
            /\ OpenSegments' \subseteq {currentSegmentIdRef'}]_vars

\* the segments of the session recovery adopts
RecoveredSegments ==
    {g \in DOMAIN dbSegments : dbSegments[g].sessionId = getUnclosedSessionOf(dbSessions)}

\* C29: a page load that finds an unclosed session with segments but no open segment sets
\* the state to paused and takes topic and subtopic from the segment of that session with
\* the greatest startTs, whatever ids the store assigned to the segments.
C29_RecoveryRestoresLatestTags ==
    [][(/\ last'.op = "reload"
        /\ getUnclosedSessionOf(dbSessions) # NULL
        /\ RecoveredSegments # {}
        /\ RecoveredOpenSegment = NULL)
         => /\ state' = "paused"
            /\ sessionId' = getUnclosedSessionOf(dbSessions)
            /\ \E g \in MostRecentIn(dbSegments, RecoveredSegments) :
                  /\ currentTopicId' = dbSegments[g].topicId
                  /\ currentSubtopicId' = dbSegments[g].subtopicId]_vars

\* C30: when the process has ended between two storage writes of an engine action (after
\* createSession and before openSegment, after closeSegment and before openSegment in a
\* topic change, after closeSegment and before endSession), the next page load leaves the
\* engine idle, running or paused, and the store with at most one unclosed session and at
\* most one open segment.
C30_RecoveryAfterPartialWrite ==
    [][(~last.ok /\ last'.op = "reload")
         => /\ state' \in {"idle", "running", "paused"}
            /\ state' = "idle" => sessionId' = NULL
            /\ state' # "idle" => sessionId' \in UnclosedSessions'
            /\ state' = "running" => currentSegmentIdRef' \in OpenSegments'
            /\ Cardinality(UnclosedSessions') <= 1
            /\ Cardinality(OpenSegments') <= 1]_vars

\* C30 witness: a page load has recovered, as paused, a session that has no segment at
\* all: the process ended after createSession and before openSegment.
C30_Witness ==
    /\ last.op = "reload"
    /\ state = "paused"
    /\ sessionId \in UnclosedSessions
    /\ \A g \in DOMAIN dbSegments : dbSegments[g].sessionId # sessionId


\* what the page's actions leave behind when each runs to its end before the next begins:
\* running with exactly the current segment open, otherwise no open segment; a session
\* unclosed exactly while not idle, and then the engine's session
SequentialOutcome ==
    /\ state = "running" => OpenSegments = {currentSegmentIdRef}
    /\ state # "running" => OpenSegments = {}
    /\ state = "idle" => UnclosedSessions = {}
    /\ state # "idle" => UnclosedSessions = {sessionId}

\* actions that never overlap leave the store and the engine so
SequentialActionsAgree == (Quiescent /\ ~overlapped) => SequentialOutcome

\* C26: an engine action invoked while an earlier one is still awaiting storage does not
\* interleave with it: once both have returned, the store and the engine's state are those
\* of running the two actions one after the other.
C26_ActionsDoNotInterleave == Quiescent => SequentialOutcome

\* initAndRecover has been called and has not returned
Recovering == \E i \in 1..Len(inFlight) : inFlight[i].call = "initAndRecover"

\* the step is taken by a call of a user-initiated action
UserActionSteps ==
    \/ last'.op \in {"startSession", "pauseSession", "resumeSession", "endCurrentSession",
                     "setTopic"}
    \/ last'.op = "await" /\ Head(inFlight).call # "initAndRecover"

\* C27: while startup recovery is still awaiting the store, a user-initiated engine action
\* that has been invoked runs no storage operation and changes no engine state.
C27_RecoveryBeforeActions ==
    [][(Recovering /\ UserActionSteps) => UNCHANGED <<storeVars, EngineFields>>]_vars

\* the Ledger's result over the stored segments at the current instant
LedgerOverStore ==
    computeTimesFromSegments(getAllSegmentsOf(dbSegments), clock, NULL, NULL, << >>, clock)

\* C31: after every completed engine action that opened or closed a segment, the exposed
\* allTimeTotal and todayTime equal the Ledger's result over the stored segments at the
\* instant the action completed.
C31_AggregatesFollowSegments ==
    [][(last'.op \in EngineActions /\ last'.ok /\ dbSegments' # dbSegments)
         => /\ allTimeTotal' = LedgerOverStore'.allTime
            /\ todayTime' = LedgerOverStore'.todayTime]_vars

\* the figures the engine exposes
Aggregates == <<allTimeTotal, todayTime, topicTime, subtopicTime>>

\* C32: pauseSession and endCurrentSession clear the running flag and cancel the pending
\* frame before their closing storage write is made, and once the action has returned no
\* tick changes the exposed aggregates while the engine is not running.
C32_LoopHaltedBeforeClosing ==
    [][/\ last'.op \in {"pauseSession", "endCurrentSession"}
             => (~isRunningRef' /\ ~animationFrameRef' /\ UNCHANGED storeVars)
       /\ (last'.op = "tick" /\ Quiescent /\ state # "running")
             => UNCHANGED Aggregates]_vars

\* C33: hiding and showing the tab while the engine is running writes nothing to the
\* store and leaves state, session and open segment as they are; no recomputation runs
\* while the tab is hidden; and a recomputation after the tab is shown again gives the
\* Ledger's figures at that instant, in which the hidden interval counts exactly once.
C33_HiddenTabLosesNoTime ==
    [][/\ (last'.op \in {"hidden", "visible"} /\ state = "running")
             => UNCHANGED <<storeVars, state, sessionId, currentSegmentIdRef, isRunningRef,
                            Aggregates>>
       /\ last'.op = "tick" => ~hidden
       /\ hidden => UNCHANGED Aggregates
       /\ (last'.op = "tick" /\ hiddenSpan.to # NULL /\ state = "running")
             => /\ allTimeTotal' = LedgerOverStore.allTime
                /\ todayTime' = LedgerOverStore.todayTime]_vars

\* C33 witness: the engine ran through a hidden interval of positive length, and a tick at
\* the instant the tab was shown again reports all of the open segment's time.
C33_Witness ==
    /\ last.op = "tick"
    /\ state = "running"
    /\ ~hidden
    /\ hiddenSpan.from # NULL
    /\ hiddenSpan.to = clock
    /\ hiddenSpan.from < hiddenSpan.to
    /\ currentSegmentIdRef \in OpenSegments
    /\ dbSegments[currentSegmentIdRef].startTs <= hiddenSpan.from
    /\ allTimeTotal = clock - dbSegments[currentSegmentIdRef].startTs

\* a list of segments in which none comes before one that was stored earlier (a segment
\* is stamped with the clock when it is stored, so a later startTs means stored later)
InInsertionOrder(segs) ==
    \A i, j \in 1..Len(segs) : i < j => segs[i].startTs <= segs[j].startTs

\* C34: getAllSegments and getSegmentsBySession return the segments in the order in which
\* they were inserted, whatever ids the store assigned to them.
C34_ReadsKeepInsertionOrder ==
    /\ InInsertionOrder(getAllSegmentsOf(dbSegments))
    /\ \A sid \in DOMAIN dbSessions : InInsertionOrder(getSegmentsBySessionOf(dbSegments, sid))
\* C35: a countdown expiry, a skip and a change of the Pomodoro settings open and close no
\* segment, end no session and leave the engine state as it is; a frame of the engine run
\* during a break finds its segment still open and reports all of its time.
C35_PhasesLeaveEngineAlone ==
    [][/\ last'.op \in {"pomTick", "pomTimeout", "pomSkip", "updateSettings"}
             => UNCHANGED <<storeVars, state, sessionId, currentSegmentIdRef, isRunningRef,
                            segments, allSegments>>
       /\ (last'.op = "tick" /\ pomState.mode = "break" /\ state = "running")
             => /\ currentSegmentIdRef \in OpenSegments
                /\ allTimeTotal' = LedgerOverStore.allTime]_vars

\* C35 witness: well into a long break, reached by expiry or skip, a frame of the engine
\* reports the whole time since its segment was opened before the first work phase ended.
C35_Witness ==
    /\ last.op = "tick"
    /\ state = "running"
    /\ pomState.mode = "break"
    /\ pomState.isBreakLong
    /\ pomState.timeRemaining < settings.longBreakDuration
    /\ callbacks.work >= 1
    /\ currentSegmentIdRef \in OpenSegments
    /\ allTimeTotal = clock - dbSegments[currentSegmentIdRef].startTs
    /\ allTimeTotal > WorkDuration
\* C36: in a visible tab the deferred transition of an expiry changes the phase once and
\* invokes one completion callback, and once it has been applied no further transition is
\* waiting, whatever frames ran between the detecting tick and the timer.
C36_OneTransitionPerExpiry ==
    [][(last'.op = "pomTimeout" /\ ~hidden)
         => /\ pomState'.mode # pomState.mode
            /\ callbacks'.work + callbacks'.break = callbacks.work + callbacks.break + 1
            /\ phaseTimeouts' = 0]_vars
\* C37: an inactive overlay, as stop() leaves it, becomes active again only by start(): no
\* tick, no timer set before the stop, no skip() and no visibility event activates it.
C37_InactiveUntilStart ==
    [][(~pomState.isActive /\ pomState'.isActive) => last'.op = "pomStart"]_vars
\* the ids of the segments in a list
IdsIn(segs) == {segs[i].id : i \in 1..Len(segs)}

\* C38: after every completed engine action and after every deletion from the history
\* panel, the engine's list of all segments holds exactly the stored segments and its list
\* of the current session's segments exactly the stored segments of that session.
C38_ListsMatchStore ==
    [][(last'.op \in EngineActions \cup {"deleteSelected"} /\ last'.ok)
         => /\ IdsIn(allSegments') = DOMAIN dbSegments'
            /\ sessionId' # NULL
                  => IdsIn(segments')
                        = {g \in DOMAIN dbSegments' : dbSegments'[g].sessionId = sessionId'}]_vars
\* C39: with the settings never changed, the session counter is always within
\* 1..sessionsBeforeLongBreak, the long-break flag is set only in a break, and the break that
\* follows a work phase is long exactly when that work phase is the
\* sessionsBeforeLongBreak-th since the start or the last long break.
C39_SessionCounterCycle ==
    /\ [](settings = DefaultSettings
            => /\ pomState.currentSession \in 1..settings.sessionsBeforeLongBreak
               /\ pomState.isBreakLong => pomState.mode = "break")
    /\ [][(pomState.mode = "work" /\ pomState'.mode = "break")
             => /\ pomState'.isBreakLong
                      = (pomState.currentSession = settings.sessionsBeforeLongBreak)
                /\ pomState'.currentSession = pomState.currentSession]_vars
    /\ [][(pomState.mode = "break" /\ pomState'.mode = "work" /\ pomState'.isActive
              /\ last'.op # "pomStart")
             => pomState'.currentSession
                   = IF pomState.isBreakLong THEN 1 ELSE pomState.currentSession + 1]_vars

\* C39 witness: the second work phase has expired and its break is a long one.
C39_Witness ==
    /\ last.op = "pomTimeout"
    /\ pomState.mode = "break"
    /\ pomState.isBreakLong
    /\ pomState.currentSession = SessionsBeforeLongBreak
    /\ callbacks.work = SessionsBeforeLongBreak
    /\ callbacks.break = SessionsBeforeLongBreak - 1
\* the total over a list of segments in which every stored endTs is used as it is
RECURSIVE StoredEndTotal(_, _)
StoredEndTotal(segs, now) ==
    IF segs = << >> THEN 0
    ELSE (IF Head(segs).endTs = NULL THEN now ELSE Head(segs).endTs) - Head(segs).startTs
         + StoredEndTotal(Tail(segs), now)

\* C40: once a segment's or session's endTs is written, whatever its value, the Ledger
\* counts the segment up to that endTs, no later step changes the segment's endTs, and a
\* page load adopts neither that segment as the open one nor that session as the unclosed one.
C40_WrittenEndTsIsFinal ==
    [][/\ last'.op = "tick" => allTimeTotal' = StoredEndTotal(allSegments, clock)
       /\ \A g \in DOMAIN dbSegments \cap DOMAIN dbSegments' :
             dbSegments[g].endTs # NULL => dbSegments'[g].endTs = dbSegments[g].endTs
       /\ last'.op = "reload"
             => /\ currentSegmentIdRef' # NULL
                      => dbSegments[currentSegmentIdRef'].endTs = NULL
                /\ sessionId' # NULL => dbSessions[sessionId'].endTs = NULL]_vars

====
